---- MODULE Spec2Model ----
(***************************************************************************)
(* Model of the idempotent GM command dispatcher of combo-sdk-go           *)
(* (idempotentGmListener), of the two IdempotencyStore implementations it  *)
(* ships with (memoryIdempotencyStore, redisIdempotencyStore) and of the   *)
(* wrapped GmListener it protects.                                         *)
(*                                                                         *)
(* One "attempt" is one call of idempotentGmListener.HandleGmRequest, run  *)
(* by its own goroutine.  The store calls and the call of the wrapped      *)
(* listener are the points where goroutines interleave; everything between *)
(* two of them is local computation and belongs to the step before it.     *)
(***************************************************************************)
EXTENDS Integers, Sequences, FiniteSets, TLC

\* ------------------------------------------------------------------ bounds

\* Number of HandleGmRequest calls of one behaviour.
MaxAttempts == 2

\* The clock of the Redis server stops here (hours).
MaxTime == 24

\* Hours the clock advances in one step.
TickHours == 24

\* Redis replies lost or failed in one behaviour.
MaxFaults == 1

\* Goroutines that call the store directly, one call each.
MaxCallers == 3

\* Instants per second: time.Time is finer than the second of the timestamp.
TicksPerSecond == 2

\* The second in which requests are signed.
SignSecond == 400

\* Changes made to a signed request before it is verified.
MaxChanges == 2

\* ------------------------------------------------------- program constants

\* cfg.TTL = 24 * time.Hour when the configured value is <= 0.
DefaultTTLHours == 24

\* maxTimeDiff = time.Minute * 5, in seconds.
MaxTimeDiffSeconds == 300

\* ------------------------------------------------------------- value sets

Attempts == 1..MaxAttempts

\* req.IdempotencyKey == "" : no idempotency handling.
NoKey == ""

Keys == {"k1", "k2"}

\* The GmRequest every behaviour sends.
BaseRequest == [IdempotencyKey |-> "k1", Id |-> "r1", Cmd |-> "c1", Args |-> "a1"]

\* GmRequest values: the base request, its key with other args, its key with
\* another command, a request without a key, and a request on another key.
Requests ==
    { BaseRequest,
      [IdempotencyKey |-> "k1",  Id |-> "r1", Cmd |-> "c1", Args |-> "a2"],
      [IdempotencyKey |-> "k1",  Id |-> "r1", Cmd |-> "c2", Args |-> "a1"],
      [IdempotencyKey |-> NoKey, Id |-> "r1", Cmd |-> "c1", Args |-> "a1"],
      [IdempotencyKey |-> "k2",  Id |-> "r1", Cmd |-> "c1", Args |-> "a1"] }

\* What the platform sends in one behaviour: the base request and one other
\* request, each any number of times.
Workloads == {{BaseRequest, r} : r \in Requests \ {BaseRequest}}

NoRequest == [IdempotencyKey |-> NoKey, Id |-> "", Cmd |-> "", Args |-> ""]

\* Goroutines that call the store directly, each with a value of its own.
StoreCallers == 1..MaxCallers

\* RedisIdempotencyStoreConfig.TTL values (hours); 0 stands for "not given".
TTLConfigs == {0, DefaultTTLHours}

\* --------------------------------------------------- Go values and errors

\* A (resp any) is nil, a value of the game's own type, or a json.RawMessage.
Nil == [t |-> "nil", v |-> ""]
Value(x) == [t |-> "value", v |-> x]
RawMessage(b) == [t |-> "json.RawMessage", v |-> b]

\* Values json.Marshal rejects (a channel, a NaN float, a failing Marshaler).
Unmarshalable == {"chan"}

\* *GmErrorResponse: nil, or a struct.
NoError == [Error |-> "", Message |-> "", Uncertain |-> FALSE]
GmErrorResponse(code, msg) == [Error |-> code, Message |-> msg, Uncertain |-> FALSE]

GmError_IdempotencyConflict == "idempotency_conflict"
GmError_IdempotencyMismatch == "idempotency_mismatch"
GmError_InternalError == "internal_error"
GmError_DatabaseError == "database_error"

\* What the wrapped GmListener may return: (resp, nil), (nil, err), and a resp
\* that cannot be serialized.
ExecOutcomes ==
    { [resp |-> Value("v1"), err |-> NoError],
      [resp |-> Nil,
       err |-> [Error |-> GmError_DatabaseError, Message |-> "db down", Uncertain |-> TRUE]],
      [resp |-> Value("chan"), err |-> NoError] }

NoOutcome == [resp |-> Nil, err |-> NoError]

\* A string value of the store: "" or the JSON text of an idempotencyRecord.
EmptyString == [s |-> ""]

\* ---------------------------------------------------------------- state

VARIABLES
    requests,   \* the GmRequests the platform sends in this behaviour
    storeKind,  \* which IdempotencyStore the listener was built with
    ttl,        \* redisIdempotencyStore.ttl, in hours
    kv,         \* memoryIdempotencyStore.kv, or the keys of the Redis server
    expiry,     \* Redis: the hour at which a key expires
    now,        \* Redis: the server's clock, in hours
    started,    \* number of HandleGmRequest calls begun so far
    pc,         \* per attempt: where its goroutine stands
    req,        \* per attempt: the *GmRequest it was called with
    record,     \* per attempt: its local *idempotencyRecord
    oldRecordStr, \* per attempt: the string its SetNX returned
    result,     \* per attempt: what HandleGmRequest returned
    faults,     \* Redis: replies lost or failed so far
    path,       \* per attempt: the branch of HandleGmRequest it took
    outcome,    \* per attempt: what the wrapped listener returned to it
    execCalls,  \* per attempt: calls of i.real.HandleGmRequest
    nxCalls,    \* per attempt: calls of i.store.SetNX
    xxCalls,    \* per attempt: calls of i.store.SetXX
    created,    \* per key: times a SetNX created the key
    expired,    \* per key: times the key expired
    mu,         \* memoryIdempotencyStore.mu: the caller holding it, 0 when free
    call,       \* per direct caller of the store: its SetNX or SetXX call
    signerOf,   \* game and signingKey of the httpSigner that signs
    verifierOf, \* game and signingKey of the httpSigner that verifies
    hreq,       \* the *http.Request: Method, URL.RequestURI(), Body, Authorization
    hphase,     \* "unsigned", "signed" or "verified"
    signedAt,   \* signingTime of the SignHttp call (ticks)
    signedReq,  \* hreq as SignHttp left it
    changes,    \* the parts of hreq changed since SignHttp
    authAt,     \* currentTime of the AuthHttp call (ticks)
    authReq,    \* hreq as AuthHttp found it
    signErr,    \* what SignHttp returned
    authErr,    \* what AuthHttp returned
    inbound,    \* the *http.Request ServeHTTP is given, as it arrived
    hstate,     \* "idle", "received" or "responded"
    servedAt,   \* time.Now() of the ServeHTTP call (ticks)
    response,   \* what ServeHTTP wrote: status code and body
    gmCalls,    \* calls of listener.HandleGmRequest made for the request
    gmCall,     \* the *GmRequest ServeHTTP passed to the listener
    gmOutcome,  \* what the listener returned
    notified    \* the calls of the NotificationListener, with what each returned

vars == <<requests, storeKind, ttl, kv, expiry, now, started, pc, req, record,
          oldRecordStr, result,
          faults, path, outcome, execCalls, nxCalls, xxCalls, created, expired,
          mu, call,
          signerOf, verifierOf, hreq, hphase, signedAt, signedReq, changes, authAt,
          authReq, signErr, authErr,
          inbound, hstate, servedAt, response, gmCalls, gmCall, gmOutcome, notified>>

\* The variables of the listener and of the store it uses.
listenerVars == <<requests, storeKind, ttl, kv, expiry, now, started, pc, req, record,
                  oldRecordStr, result, faults, path, outcome, execCalls, nxCalls,
                  xxCalls, created, expired>>

\* The variables the listener's steps leave alone.
otherVars == <<mu, call, signerOf, verifierOf, hreq, hphase, signedAt, signedReq,
               changes, authAt, authReq, signErr, authErr,
               inbound, hstate, servedAt, response, gmCalls, gmCall, gmOutcome, notified>>

\* The variables of the direct calls of the store.
storeCallVars == <<mu, call>>

\* The variables of a request that is signed and verified.
signerVars == <<signerOf, verifierOf, hreq, hphase, signedAt, signedReq, changes,
                authAt, authReq, signErr, authErr>>

\* The variables of the GM handler serving a request.
handlerVars == <<inbound, hstate, servedAt, response, gmCalls, gmCall, gmOutcome, notified>>

\* The variables that neither the listener's steps nor the direct calls of the
\* store touch.
beyondStore == <<signerVars, handlerVars>>

\* The variables the signer's steps leave alone.
beyondSigner == <<listenerVars, storeCallVars, handlerVars>>

\* The variables the handler's steps leave alone.
beyondHandler == <<listenerVars, storeCallVars, signerVars>>

\* ------------------------------------------------------ IdempotencyStore

\* Mutant: SetNX stores the value whether or not the key exists.
memorySetNX_NoCheck(m, key, value) ==
    [kv |-> (key :> value) @@ [k \in DOMAIN m \ {key} |-> m[k]], old |-> EmptyString]

\* memoryIdempotencyStore.SetNX, under s.mu: the new map and the returned string.
memorySetNX(m, key, value) ==
    IF key \in DOMAIN m
    THEN [kv |-> m, old |-> m[key]]
    ELSE [kv |-> (key :> value) @@ m, old |-> EmptyString]

\* Go's nil error, and go-redis's redis.Nil: the server answered with a null
\* reply.
NilErr == "nil"
redis_Nil == "redis: nil"

\* memoryIdempotencyStore.SetXX, under s.mu: the new map and the returned error.
memorySetXX(m, key, value) ==
    [kv |-> IF key \in DOMAIN m THEN [m EXCEPT ![key] = value] ELSE m,
     err |-> NilErr]

\* NewRedisIdempotencyStore: the ttl the store keeps for a configured TTL.
NewRedisTTL(cfgTTL) == IF cfgTTL <= 0 THEN DefaultTTLHours ELSE cfgTTL

\* Mutant: SetNX sends SET key value GET without NX.
redisSetNX_NoNX(m, e, key, value, t, clock) ==
    [kv |-> (key :> value) @@ [k \in DOMAIN m \ {key} |-> m[k]],
     expiry |-> (key :> (clock + t)) @@ [k \in DOMAIN e \ {key} |-> e[k]],
     old |-> IF key \in DOMAIN m THEN m[key] ELSE EmptyString]

\* redisIdempotencyStore.SetNX as the server runs it: SET key value NX GET with
\* the store's ttl.  old is the string SetNX returns ("" on redis.Nil).
redisSetNX(m, e, key, value, t, clock) ==
    IF key \in DOMAIN m
    THEN [kv |-> m, expiry |-> e, old |-> m[key]]
    ELSE [kv |-> (key :> value) @@ m,
          expiry |-> (key :> (clock + t)) @@ e,
          old |-> EmptyString]

\* Mutant: SetXX gives the key a new lifetime.
redisSetXX_ExtendsTTL(m, e, key, value) ==
    IF key \in DOMAIN m
    THEN [kv |-> [m EXCEPT ![key] = value],
          expiry |-> [e EXCEPT ![key] = @ + DefaultTTLHours], err |-> NilErr]
    ELSE [kv |-> m, expiry |-> e, err |-> redis_Nil]

\* redisIdempotencyStore.SetXX as the server runs it: SET key value XX KEEPTTL.
\* The server's reply is OK when the key exists and null when it does not;
\* SetArgs(...).Err() is redis.Nil for the null reply and SetXX returns it.
redisSetXX(m, e, key, value) ==
    IF key \in DOMAIN m
    THEN [kv |-> [m EXCEPT ![key] = value], expiry |-> e, err |-> NilErr]
    ELSE [kv |-> m, expiry |-> e, err |-> redis_Nil]

\* Mutant: every call uses the key of the base request.
SetNX_OneKey(key, value) ==
    IF storeKind = "memory"
    THEN LET r == memorySetNX(kv, BaseRequest.IdempotencyKey, value)
         IN  [kv |-> r.kv, expiry |-> expiry, old |-> r.old]
    ELSE redisSetNX(kv, expiry, BaseRequest.IdempotencyKey, value, ttl, now)

\* i.store.SetNX of the configured store, when the call returns without error.
SetNX(key, value) ==
    IF storeKind = "memory"
    THEN LET r == memorySetNX(kv, key, value)
         IN  [kv |-> r.kv, expiry |-> expiry, old |-> r.old]
    ELSE redisSetNX(kv, expiry, key, value, ttl, now)

\* i.store.SetXX of the configured store, when the write reaches the store.
SetXX(key, value) ==
    IF storeKind = "memory"
    THEN LET r == memorySetXX(kv, key, value)
         IN  [kv |-> r.kv, expiry |-> expiry, err |-> r.err]
    ELSE redisSetXX(kv, expiry, key, value)

\* ------------------------------------------------- idempotentGmListener

NilRecord ==
    [Nonce |-> 0, Key |-> "", Id |-> "", Cmd |-> "", Args |-> "",
     Done |-> FALSE, Resp |-> "", Error |-> NoError]

\* The record HandleGmRequest builds before SetNX; the nonce is a fresh uuid.
newRecord(nonce, r) ==
    [Nonce |-> nonce, Key |-> r.IdempotencyKey, Id |-> r.Id, Cmd |-> r.Cmd,
     Args |-> r.Args, Done |-> FALSE, Resp |-> "", Error |-> NoError]

\* json.Marshal(resp): nil gives null, a rejected value gives no bytes (the
\* error is dropped by processRequest), a json.RawMessage gives its own bytes.
jsonMarshalAny(resp) ==
    IF resp.t = "nil" THEN "null"
    ELSE IF resp.t = "json.RawMessage" THEN (IF resp.v = "" THEN "null" ELSE resp.v)
    ELSE IF resp.v \in Unmarshalable THEN ""
    ELSE "{" \o resp.v \o "}"

\* Mutant: the marshalled record is the empty string.
jsonMarshalRecord_Empty(rec) == EmptyString

\* json.Marshal(record): a nil Resp is written as null.
jsonMarshalRecord(rec) ==
    [s |-> "record", nonce |-> rec.Nonce, key |-> rec.Key, id |-> rec.Id,
     cmd |-> rec.Cmd, args |-> rec.Args, done |-> rec.Done,
     resp |-> IF rec.Resp = "" THEN "null" ELSE rec.Resp,
     error |-> rec.Error]

\* json.Unmarshal into an idempotencyRecord: Resp receives the raw bytes.
jsonUnmarshalRecord(str) ==
    [Nonce |-> str.nonce, Key |-> str.key, Id |-> str.id, Cmd |-> str.cmd,
     Args |-> str.args, Done |-> str.done, Resp |-> str.resp, Error |-> str.error]

\* Mutant: text that is no record is taken for no record at all.
parseOldRecord_IgnoresError(str) ==
    IF str = EmptyString \/ str.s # "record"
    THEN [isNil |-> TRUE, err |-> FALSE, rec |-> NilRecord]
    ELSE [isNil |-> FALSE, err |-> FALSE, rec |-> jsonUnmarshalRecord(str)]

\* parseOldRecord: (nil, nil) for "", (nil, err) for text that is no record.
parseOldRecord(str) ==
    IF str = EmptyString THEN [isNil |-> TRUE, err |-> FALSE, rec |-> NilRecord]
    ELSE IF str.s # "record" THEN [isNil |-> TRUE, err |-> TRUE, rec |-> NilRecord]
    ELSE [isNil |-> FALSE, err |-> FALSE, rec |-> jsonUnmarshalRecord(str)]

\* Mutant: previousResponse without the check of record.Done.
previousResponse_NoDoneCheck(r, rec) ==
    IF rec.Cmd # r.Cmd
    THEN [resp |-> Nil,
          err |-> GmErrorResponse(GmError_IdempotencyMismatch, "cmd mismatch")]
    ELSE IF rec.Args # r.Args
    THEN [resp |-> Nil,
          err |-> GmErrorResponse(GmError_IdempotencyMismatch, "args mismatch")]
    ELSE [resp |-> RawMessage(rec.Resp), err |-> rec.Error]

\* Mutant: previousResponse compares command and arguments before record.Done.
previousResponse_MismatchFirst(r, rec) ==
    IF rec.Cmd # r.Cmd \/ rec.Args # r.Args
    THEN [resp |-> Nil,
          err |-> GmErrorResponse(GmError_IdempotencyMismatch, "mismatch")]
    ELSE IF ~rec.Done
    THEN [resp |-> Nil,
          err |-> GmErrorResponse(GmError_IdempotencyConflict,
                                  "previous request is not completed")]
    ELSE [resp |-> RawMessage(rec.Resp), err |-> rec.Error]

\* Mutant: previousResponse without the comparison of the arguments.
previousResponse_NoArgsCheck(r, rec) ==
    IF ~rec.Done
    THEN [resp |-> Nil,
          err |-> GmErrorResponse(GmError_IdempotencyConflict,
                                  "previous request is not completed")]
    ELSE IF rec.Cmd # r.Cmd
    THEN [resp |-> Nil,
          err |-> GmErrorResponse(GmError_IdempotencyMismatch, "cmd mismatch")]
    ELSE [resp |-> RawMessage(rec.Resp), err |-> rec.Error]

\* previousResponse.
previousResponse(r, rec) ==
    IF ~rec.Done
    THEN [resp |-> Nil,
          err |-> GmErrorResponse(GmError_IdempotencyConflict,
                                  "previous request is not completed")]
    ELSE IF rec.Cmd # r.Cmd
    THEN [resp |-> Nil,
          err |-> GmErrorResponse(GmError_IdempotencyMismatch, "cmd mismatch")]
    ELSE IF rec.Args # r.Args
    THEN [resp |-> Nil,
          err |-> GmErrorResponse(GmError_IdempotencyMismatch, "args mismatch")]
    ELSE [resp |-> RawMessage(rec.Resp), err |-> rec.Error]

\* Mutant: a returned record is never taken for the call's own.
firstTimeRequest_NoNonceCheck(old, rec) == old.isNil

\* Mutant: a record that is not done counts as no record.
firstTimeRequest_PendingIsFirst(old, rec) ==
    old.isNil \/ old.rec.Nonce = rec.Nonce \/ ~old.rec.Done

\* firstTimeRequest of HandleGmRequest.
firstTimeRequest(old, rec) == old.isNil \/ old.rec.Nonce = rec.Nonce

\* Mutant: processRequest does not set record.Done.
processedRecord_NotDone(rec, out) ==
    [rec EXCEPT !.Resp = jsonMarshalAny(out.resp), !.Error = out.err]

\* The record processRequest holds after the wrapped listener returned out.
processedRecord(rec, out) ==
    [rec EXCEPT !.Done = TRUE, !.Resp = jsonMarshalAny(out.resp), !.Error = out.err]

InternalError(msg) == [resp |-> Nil, err |-> GmErrorResponse(GmError_InternalError, msg)]

NoResult == [resp |-> Nil, err |-> NoError]

\* ----------------------------------------------------------- httpSigner

signingAlgorithm == "SEAYOO-HMAC-SHA256"

\* maxTimeDiff in ticks.
maxTimeDiff == MaxTimeDiffSeconds * TicksPerSecond

\* The zero time.Time, centuries before any instant of the model.
ZeroTime == 0 - 1000 * maxTimeDiff

\* hex(sha256(b)): the model keeps the digest's one property, that different
\* bytes have different digests.
sha256Hex(b) == "sha256(" \o b \o ")"

emptyStringSha256 == sha256Hex("")

\* r.Body: nil, or a reader with the bytes still to be read; a failing reader
\* returns an error from Read.
NilBody == [nil |-> TRUE, bytes |-> "", fails |-> FALSE]
BodyOf(b) == [nil |-> FALSE, bytes |-> b, fails |-> FALSE]
FailingBody == [nil |-> FALSE, bytes |-> "b1", fails |-> TRUE]

\* What reading r.Body to its end yields.
Yields(body) == body.bytes

\* The text of a timestamp: the second, and the fractional second field that
\* time.Parse accepts after the seconds (frac = -1: no such field); text that
\* time.Parse rejects has ok = FALSE.
TimestampText(sec, frac) == [sec |-> sec, frac |-> frac, ok |-> TRUE]
BadTimestampText == [sec |-> 0, frac |-> -1, ok |-> FALSE]

\* The characters of a timestamp text, as they enter the string to sign.
timestampString(ts) ==
    IF ~ts.ok THEN "garbage"
    ELSE "T" \o ToString(ts.sec) \o
         (IF ts.frac < 0 THEN "" ELSE "." \o ToString(ts.frac)) \o "Z"

\* Mutant: the timestamp is formatted in a local zone eight hours east of UTC.
getTimestamp_NoUTC(t) == TimestampText(t \div TicksPerSecond + 8 * 3600, -1)

\* getTimestamp: t.UTC().Format(timeFormat) keeps the whole seconds of t.
getTimestamp(t) == TimestampText(t \div TicksPerSecond, -1)

\* time.Parse(timeFormat, text): the instant, with the fractional second when
\* the text has one.
timeParse(ts) ==
    [err |-> ~ts.ok,
     t |-> ts.sec * TicksPerSecond + (IF ts.frac < 0 THEN 0 ELSE ts.frac)]

\* Mutant: computePayloadHash leaves the drained reader in r.Body.
restoredBody_Drained(body) == BodyOf("")

\* computePayloadHash: r.Body = io.NopCloser(bytes.NewBuffer(body)).
restoredBody(body) == BodyOf(body.bytes)

\* computePayloadHash: the digest and r.Body afterwards.
computePayloadHash(body) ==
    IF body.nil THEN [hash |-> emptyStringSha256, err |-> FALSE, body |-> body]
    ELSE IF body.fails THEN [hash |-> "", err |-> TRUE, body |-> body]
    ELSE [hash |-> sha256Hex(body.bytes), err |-> FALSE, body |-> restoredBody(body)]

\* buildStringToSign: strings.Join(..., "\n").
buildStringToSign(r, timestamp) ==
    LET ph == computePayloadHash(r.Body)
    IN  [err |-> ph.err,
         body |-> ph.body,
         str |-> signingAlgorithm \o "\n" \o r.Method \o "\n" \o r.URI \o "\n" \o
                 timestampString(timestamp) \o "\n" \o ph.hash]

\* computeSignature: hex(hmacSha256(key, stringToSign)); the model keeps the
\* MAC's one property, that another key or another string gives another MAC.
computeSignature(key, stringToSign) == [key |-> key, str |-> stringToSign]

NoSignature == [key |-> "", str |-> ""]

\* The Authorization header value is a string; the model keeps it as the
\* sequence of its pieces: the characters the parser looks for (space, comma,
\* "=", double quote) one by one, and every run of other characters as one
\* piece, which is a word, the text of a timestamp or the hex of a signature.
Piece(t, text, ts, sig) == [t |-> t, text |-> text, ts |-> ts, sig |-> sig]

Sp == Piece("sp", " ", BadTimestampText, NoSignature)
Comma == Piece("comma", ",", BadTimestampText, NoSignature)
Eq == Piece("eq", "=", BadTimestampText, NoSignature)
Quote == Piece("quote", "'", BadTimestampText, NoSignature)
Word(w) == Piece("word", w, BadTimestampText, NoSignature)
TsPiece(ts) == Piece("ts", timestampString(ts), ts, NoSignature)
SigPiece(sig) == Piece("sig", "hex(" \o sig.key \o "," \o sig.str \o ")", BadTimestampText, sig)

\* The empty header value.
NoHeader == <<>>

\* A GameId that holds a comma.
CommaGame == "g1,x"

\* The pieces of a GameId.
GamePieces(game) ==
    IF game = CommaGame THEN <<Word("g1"), Comma, Word("x")>> ELSE <<Word(game)>>

\* buildAuthorizationHeader: "%s Game=%s,Timestamp=%s,Signature=%s".
buildAuthorizationHeader(game, timestamp, signature) ==
    <<Word(signingAlgorithm), Sp, Word("Game"), Eq>> \o GamePieces(game) \o
    <<Comma, Word("Timestamp"), Eq, TsPiece(timestamp),
      Comma, Word("Signature"), Eq, SigPiece(signature)>>

\* The string a sequence of pieces stands for.
RECURSIVE TextOf(_)
TextOf(pieces) ==
    IF pieces = <<>> THEN "" ELSE Head(pieces).text \o TextOf(Tail(pieces))

\* strings.IndexByte: the position of the first piece of kind t, 0 for Go's -1.
IndexOf(pieces, t) ==
    IF \E i \in DOMAIN pieces : pieces[i].t = t
    THEN CHOOSE i \in DOMAIN pieces :
             pieces[i].t = t /\ \A j \in 1..(i - 1) : pieces[j].t # t
    ELSE 0

\* strings.Split(text, sep) for the one-character separator of kind t.
RECURSIVE Split(_, _)
Split(pieces, t) ==
    LET i == IndexOf(pieces, t)
    IN  IF i = 0 THEN <<pieces>>
        ELSE <<SubSeq(pieces, 1, i - 1)>> \o Split(SubSeq(pieces, i + 1, Len(pieces)), t)

\* strings.Trim(text, cutset): the characters of the kinds in cutset are taken
\* off both ends.
Trim(pieces, cutset) ==
    LET keep == {i \in DOMAIN pieces : pieces[i].t \notin cutset}
    IN  IF keep = {} THEN <<>>
        ELSE SubSeq(pieces, CHOOSE i \in keep : \A j \in keep : i <= j,
                            CHOOSE i \in keep : \A j \in keep : i >= j)

\* time.Parse(timeFormat, kv[1]): only the text of a timestamp parses.
parseTimestampValue(value) ==
    IF Len(value) = 1 /\ value[1].t = "ts" THEN timeParse(value[1].ts)
    ELSE [err |-> TRUE, t |-> ZeroTime]

\* The signature string kv[1]: the hex it holds, or some other text.
signatureValue(value) ==
    IF Len(value) = 1 /\ value[1].t = "sig" THEN value[1].sig
    ELSE [key |-> "", str |-> TextOf(value)]

\* The authorization struct before any parameter is read.
NoAuthorization(scheme) ==
    [err |-> "nil", scheme |-> scheme, game |-> "", timestamp |-> ZeroTime,
     signature |-> NoSignature]

\* parseAuthorizationHeader: the loop over the parameters from the i-th on.
RECURSIVE parseParameters(_, _, _)
parseParameters(params, i, auth) ==
    IF i > Len(params) THEN auth
    ELSE LET part == Split(params[i], "eq")
             name == TextOf(Trim(part[1], {"sp"}))
             value == Trim(part[2], {"sp", "quote"})
         IN  IF Len(part) # 2
             THEN [auth EXCEPT !.err = "invalid parameters in authorization header"]
             ELSE IF name = "Game"
             THEN parseParameters(params, i + 1, [auth EXCEPT !.game = TextOf(value)])
             ELSE IF name = "Timestamp"
             THEN IF parseTimestampValue(value).err
                  THEN [auth EXCEPT !.err = "invalid timestamp"]
                  ELSE parseParameters(params, i + 1,
                           [auth EXCEPT !.timestamp = parseTimestampValue(value).t])
             ELSE IF name = "Signature"
             THEN parseParameters(params, i + 1,
                      [auth EXCEPT !.signature = signatureValue(value)])
             ELSE parseParameters(params, i + 1, auth)

\* Mutant: the values are not trimmed.
parseAuthorizationHeader_NoTrim(header) ==
    LET space == IndexOf(header, "sp")
        bare == [i \in DOMAIN header |->
                    IF header[i].t \in {"sp", "quote"} /\ i # space
                    THEN Word(header[i].text) ELSE header[i]]
    IN  IF header = <<>>
        THEN [NoAuthorization("") EXCEPT !.err = "missing authorization header"]
        ELSE IF space = 0
        THEN [NoAuthorization("") EXCEPT !.err = "invalid authorization header"]
        ELSE parseParameters(Split(SubSeq(bare, space, Len(bare)), "comma"), 1,
                             NoAuthorization(TextOf(SubSeq(bare, 1, space - 1))))

\* parseAuthorizationHeader.
parseAuthorizationHeader(header) ==
    LET space == IndexOf(header, "sp")
    IN  IF header = <<>>
        THEN [NoAuthorization("") EXCEPT !.err = "missing authorization header"]
        ELSE IF space = 0
        THEN [NoAuthorization("") EXCEPT !.err = "invalid authorization header"]
        ELSE parseParameters(Split(SubSeq(header, space, Len(header)), "comma"), 1,
                             NoAuthorization(TextOf(SubSeq(header, 1, space - 1))))

\* Mutant: the header is set before the error is looked at.
SignHttp_HeaderFirst(s, r, signingTime) ==
    LET timestamp == getTimestamp(signingTime)
        sts == buildStringToSign(r, timestamp)
        signed == [r EXCEPT !.Body = sts.body,
                            !.Authorization =
                                buildAuthorizationHeader(
                                    s.game, timestamp,
                                    computeSignature(s.signingKey, sts.str))]
    IN  IF sts.err THEN [err |-> "failed to compute payload hash", r |-> signed]
        ELSE [err |-> "nil", r |-> signed]

\* SignHttp: the error it returns and the request afterwards.
SignHttp(s, r, signingTime) ==
    LET timestamp == getTimestamp(signingTime)
        sts == buildStringToSign(r, timestamp)
    IN  IF sts.err
        THEN [err |-> "failed to compute payload hash", r |-> [r EXCEPT !.Body = sts.body]]
        ELSE [err |-> "nil",
              r |-> [r EXCEPT !.Body = sts.body,
                              !.Authorization =
                                  buildAuthorizationHeader(
                                      s.game, timestamp,
                                      computeSignature(s.signingKey, sts.str))]]

\* currentTime.Sub(auth.timestamp).Abs().
AbsDiff(a, b) == IF a >= b THEN a - b ELSE b - a

\* Mutant: the time difference is allowed only below maxTimeDiff.
timeDiffExceeds_Exclusive(timeDiff) == timeDiff >= maxTimeDiff

\* AuthHttp step 3: timeDiff > maxTimeDiff.
timeDiffExceeds(timeDiff) == timeDiff > maxTimeDiff

\* Mutant: the signature is compared before the game.
AuthHttp_SignatureFirst(s, r, currentTime) ==
    LET auth == parseAuthorizationHeader(r.Authorization)
        sts == buildStringToSign(r, getTimestamp(auth.timestamp))
    IN  IF auth.err # "nil" THEN [err |-> auth.err, r |-> r]
        ELSE IF auth.scheme # signingAlgorithm
        THEN [err |-> "invalid auth scheme", r |-> r]
        ELSE IF timeDiffExceeds(AbsDiff(currentTime, auth.timestamp))
        THEN [err |-> "time difference exceeds maximum allowed", r |-> r]
        ELSE IF sts.err
        THEN [err |-> "failed to compute payload hash", r |-> [r EXCEPT !.Body = sts.body]]
        ELSE IF auth.signature # computeSignature(s.signingKey, sts.str)
        THEN [err |-> "invalid signature", r |-> [r EXCEPT !.Body = sts.body]]
        ELSE IF auth.game # s.game
        THEN [err |-> "invalid game", r |-> [r EXCEPT !.Body = sts.body]]
        ELSE [err |-> "nil", r |-> [r EXCEPT !.Body = sts.body]]

\* AuthHttp: the error it returns and the request afterwards.
AuthHttp(s, r, currentTime) ==
    LET auth == parseAuthorizationHeader(r.Authorization)
        sts == buildStringToSign(r, getTimestamp(auth.timestamp))
    IN  IF auth.err # "nil" THEN [err |-> auth.err, r |-> r]
        ELSE IF auth.scheme # signingAlgorithm
        THEN [err |-> "invalid auth scheme", r |-> r]
        ELSE IF timeDiffExceeds(AbsDiff(currentTime, auth.timestamp))
        THEN [err |-> "time difference exceeds maximum allowed", r |-> r]
        ELSE IF auth.game # s.game
        THEN [err |-> "invalid game", r |-> r]
        ELSE IF sts.err
        THEN [err |-> "failed to compute payload hash", r |-> [r EXCEPT !.Body = sts.body]]
        ELSE IF auth.signature # computeSignature(s.signingKey, sts.str)
        THEN [err |-> "invalid signature", r |-> [r EXCEPT !.Body = sts.body]]
        ELSE [err |-> "nil", r |-> [r EXCEPT !.Body = sts.body]]

NotCalled == "not called"

\* No request: what the request variables hold when nothing is signed.
NoHttpRequest == [Method |-> "", URI |-> "", Body |-> NilBody, Authorization |-> NoHeader]

\* ------------------------------------------------------------- gmHandler

GmError_InvalidHttpMethod == "invalid_http_method"
GmError_InvalidContentType == "invalid_content_type"
GmError_InvalidSignature == "invalid_signature"
GmError_InvalidRequest == "invalid_request"
GmError_InvalidCommand == "invalid_command"
GmError_InvalidArgs == "invalid_args"
GmError_ThrottlingError == "throttling_error"
GmError_MaintenanceError == "maintenance_error"
GmError_NetworkError == "network_error"
GmError_TimeoutError == "timeout_error"

\* The GmError values the package declares: its client errors and its server
\* errors.
ClientErrors ==
    {GmError_InvalidHttpMethod, GmError_InvalidContentType, GmError_InvalidSignature,
     GmError_InvalidRequest, GmError_InvalidCommand, GmError_InvalidArgs,
     GmError_ThrottlingError, GmError_IdempotencyConflict, GmError_IdempotencyMismatch}

ServerErrors ==
    {GmError_MaintenanceError, GmError_NetworkError, GmError_DatabaseError,
     GmError_TimeoutError, GmError_InternalError}

\* A GmError value of the listener's own that the package does not declare.
UndeclaredError == "custom_error"

StatusOK == 200
StatusBadRequest == 400
StatusUnauthorized == 401
StatusMethodNotAllowed == 405
StatusConflict == 409
StatusUnsupportedMediaType == 415
StatusUnprocessableEntity == 422
StatusTooManyRequests == 429
StatusInternalServerError == 500
StatusServiceUnavailable == 503

\* The map gmError2HttpStatus.
gmError2HttpStatus ==
    [c \in ClientErrors \cup ServerErrors |->
        CASE c = GmError_InvalidHttpMethod -> StatusMethodNotAllowed
          [] c = GmError_InvalidContentType -> StatusUnsupportedMediaType
          [] c = GmError_InvalidSignature -> StatusUnauthorized
          [] c = GmError_InvalidRequest -> StatusBadRequest
          [] c = GmError_InvalidCommand -> StatusBadRequest
          [] c = GmError_InvalidArgs -> StatusBadRequest
          [] c = GmError_ThrottlingError -> StatusTooManyRequests
          [] c = GmError_IdempotencyConflict -> StatusConflict
          [] c = GmError_IdempotencyMismatch -> StatusUnprocessableEntity
          [] c = GmError_MaintenanceError -> StatusServiceUnavailable
          [] c = GmError_NetworkError -> StatusInternalServerError
          [] c = GmError_DatabaseError -> StatusInternalServerError
          [] c = GmError_TimeoutError -> StatusInternalServerError
          [] c = GmError_InternalError -> StatusInternalServerError]

\* Mutant: the map's zero value is used for a code that is not in the map.
errorStatus_NoDefault(code) ==
    IF code \in DOMAIN gmError2HttpStatus THEN gmError2HttpStatus[code] ELSE 0

\* status, ok := gmError2HttpStatus[err.Error]; if !ok { status = 500 }.
errorStatus(code) ==
    IF code \in DOMAIN gmError2HttpStatus THEN gmError2HttpStatus[code]
    ELSE StatusInternalServerError

\* A Content-Type header value: its first sixteen bytes (all of it when it is
\* shorter) and what follows them.
ContentType(first, rest) == [first |-> first, rest |-> rest]

ContentTypeText(ct) == ct.first \o ct.rest

\* strings.HasPrefix(contentType, "application/json").
hasJsonPrefix(ct) == ct.first = "application/json"

\* The members of a JSON object: absent, or a JSON value with its text.
JAbsent == [kind |-> "absent", text |-> "", s |-> ""]
JNull == [kind |-> "null", text |-> "null", s |-> ""]
JString(str) == [kind |-> "string", text |-> "'" \o str \o "'", s |-> str]
JNumber(digits) == [kind |-> "number", text |-> digits, s |-> ""]
JObject(members) == [kind |-> "object", text |-> "{" \o members \o "}", s |-> ""]

\* The text of one member of an object, nothing when the member is absent.
JsonMember(name, v) ==
    IF v.kind = "absent" THEN "" ELSE "'" \o name \o "':" \o v.text \o ","

\* The text of an envelope with the given members.
JsonText(d) ==
    "{" \o JsonMember("version", d.version) \o JsonMember("request_id", d.request_id) \o
    JsonMember("idempotency_key", d.idempotency_key) \o JsonMember("command", d.command) \o
    JsonMember("args", d.args) \o "}"

\* The envelopes sent: each member present, absent, or of another shape.
JsonDocuments ==
    [version : {JString("1"), JAbsent, JNumber("1")},
     request_id : {JString("r1"), JAbsent},
     idempotency_key : {JString("k1"), JAbsent},
     command : {JString("c1"), JString(""), JAbsent},
     args : {JObject("'a':1"), JNull, JAbsent}]

\* Texts that are no JSON value: the empty body and a cut-off object.
MalformedTexts == {"", "{'version':"}

\* The zero gmRequestBody; a nil Args is the empty byte string.
ZeroRequestBody ==
    [Version |-> "", RequestId |-> "", IdempotencyKey |-> "", Command |-> "", Args |-> ""]

\* Decoding a member into a string field: a string is stored, null and an
\* absent member leave the field as it is, any other value is a type error.
decodeString(v) == IF v.kind = "string" THEN v.s ELSE ""
stringTypeError(v) == v.kind \notin {"string", "null", "absent"}

\* Decoding a member into json.RawMessage: the member's bytes, null included;
\* an absent member leaves Args nil.
decodeRawMessage(v) == v.text

\* json.NewDecoder(r.Body).Decode(&body): a syntax error, or the fields of the
\* object, with an error when a member has the wrong type.
jsonDecode(text) ==
    IF \E d \in JsonDocuments : JsonText(d) = text
    THEN LET d == CHOOSE d \in JsonDocuments : JsonText(d) = text
         IN  [err |-> \/ stringTypeError(d.version) \/ stringTypeError(d.request_id)
                      \/ stringTypeError(d.idempotency_key) \/ stringTypeError(d.command),
              body |-> [Version |-> decodeString(d.version),
                        RequestId |-> decodeString(d.request_id),
                        IdempotencyKey |-> decodeString(d.idempotency_key),
                        Command |-> decodeString(d.command),
                        Args |-> decodeRawMessage(d.args)]]
    ELSE [err |-> TRUE, body |-> ZeroRequestBody]

\* Mutant: the args field is not required.
validateRequestBody_NoArgsCheck(body) ==
    IF body.Version = ""
    THEN GmErrorResponse(GmError_InvalidRequest, "Missing required field: version")
    ELSE IF body.RequestId = ""
    THEN GmErrorResponse(GmError_InvalidRequest, "Missing required field: request_id")
    ELSE IF body.Command = ""
    THEN GmErrorResponse(GmError_InvalidRequest, "Missing required field: command")
    ELSE NoError

\* validateRequestBody: nil (NoError) or the error response.
validateRequestBody(body) ==
    IF body.Version = ""
    THEN GmErrorResponse(GmError_InvalidRequest, "Missing required field: version")
    ELSE IF body.RequestId = ""
    THEN GmErrorResponse(GmError_InvalidRequest, "Missing required field: request_id")
    ELSE IF body.Command = ""
    THEN GmErrorResponse(GmError_InvalidRequest, "Missing required field: command")
    ELSE IF body.Args = ""
    THEN GmErrorResponse(GmError_InvalidRequest, "Missing required field: args")
    ELSE NoError

\* What gmHandler.json writes: the status code and json.Marshal(obj), nothing
\* when Marshal fails.
jsonError(code, err) == [code |-> code, kind |-> "error", err |-> err, text |-> ""]
jsonResult(code, resp) ==
    [code |-> code, kind |-> "result", err |-> NoError, text |-> jsonMarshalAny(resp)]

NoResponse == [code |-> 0, kind |-> "none", err |-> NoError, text |-> ""]

\* The GmRequest ServeHTTP builds from the body.
GmRequestOf(body) ==
    [Version |-> body.Version, Id |-> body.RequestId,
     IdempotencyKey |-> body.IdempotencyKey, Cmd |-> body.Command, Args |-> body.Args]

NoGmRequest == GmRequestOf(ZeroRequestBody)

\* ServeHTTP after the listener returned (resp, err).
dispatchResponse(out) ==
    IF out.err # NoError THEN jsonError(errorStatus(out.err.Error), out.err)
    ELSE jsonResult(StatusOK, out.resp)

\* Mutant: the body is decoded and validated before the signature is verified.
ServeHTTP_DecodeFirst(h, r, timeNow, out) ==
    LET auth == AuthHttp(h, r, timeNow)
        dec == jsonDecode(Yields(r.Body))
        invalid == validateRequestBody(dec.body)
        quiet(resp) == [w |-> resp, called |-> FALSE, gmreq |-> NoGmRequest]
    IN  IF r.Method # "POST"
        THEN quiet(jsonError(StatusMethodNotAllowed,
                 GmErrorResponse(GmError_InvalidHttpMethod, "Expecting POST, got " \o r.Method)))
        ELSE IF ~hasJsonPrefix(r.ContentType)
        THEN quiet(jsonError(StatusUnsupportedMediaType,
                 GmErrorResponse(GmError_InvalidContentType,
                     "Expecting application/json, got " \o ContentTypeText(r.ContentType))))
        ELSE IF dec.err
        THEN quiet(jsonError(StatusBadRequest,
                 GmErrorResponse(GmError_InvalidRequest, "json: cannot decode")))
        ELSE IF invalid # NoError
        THEN quiet(jsonError(StatusBadRequest, invalid))
        ELSE IF auth.err # "nil"
        THEN quiet(jsonError(StatusUnauthorized,
                 GmErrorResponse(GmError_InvalidSignature, auth.err)))
        ELSE [w |-> dispatchResponse(out), called |-> TRUE, gmreq |-> GmRequestOf(dec.body)]

\* ServeHTTP: what it writes, whether it called the listener, and with what;
\* out is what the listener returns when it is called.
ServeHTTP(h, r, timeNow, out) ==
    LET auth == AuthHttp(h, r, timeNow)
        dec == jsonDecode(Yields(auth.r.Body))
        invalid == validateRequestBody(dec.body)
        quiet(resp) == [w |-> resp, called |-> FALSE, gmreq |-> NoGmRequest]
    IN  IF r.Method # "POST"
        THEN quiet(jsonError(StatusMethodNotAllowed,
                 GmErrorResponse(GmError_InvalidHttpMethod, "Expecting POST, got " \o r.Method)))
        ELSE IF ~hasJsonPrefix(r.ContentType)
        THEN quiet(jsonError(StatusUnsupportedMediaType,
                 GmErrorResponse(GmError_InvalidContentType,
                     "Expecting application/json, got " \o ContentTypeText(r.ContentType))))
        ELSE IF auth.err # "nil"
        THEN quiet(jsonError(StatusUnauthorized,
                 GmErrorResponse(GmError_InvalidSignature, auth.err)))
        ELSE IF dec.err
        THEN quiet(jsonError(StatusBadRequest,
                 GmErrorResponse(GmError_InvalidRequest, "json: cannot decode")))
        ELSE IF invalid # NoError
        THEN quiet(jsonError(StatusBadRequest, invalid))
        ELSE [w |-> dispatchResponse(out), called |-> TRUE, gmreq |-> GmRequestOf(dec.body)]


\* --------------------------------------------------- notificationHandler

notificationType_ShipOrder == "ship_order"
notificationType_Refund == "refund"

\* The members of a payload that the model follows: a string and an int.
PayloadMembers(p) == JsonMember("order_id", p.order_id) \o JsonMember("quantity", p.quantity)

\* The payloads sent: members present or absent, and a quantity that is a
\* string.
PayloadDocuments ==
    [order_id : {JString("o1"), JAbsent}, quantity : {JNumber("1"), JString("x")}]

\* The text of a notification with the given members.
NotificationText(d) ==
    "{" \o JsonMember("version", d.version) \o
    JsonMember("notification_id", d.notification_id) \o
    JsonMember("notification_type", d.notification_type) \o
    JsonMember("data", d.data) \o "}"

\* The notifications sent: both types, an unknown type, no type, a type that
\* is no string; data an object, null, a string, or absent.
NotificationDocuments ==
    [version : {JString("1.0")},
     notification_id : {JString("n1"), JAbsent},
     notification_type : {JString(notificationType_ShipOrder),
                          JString(notificationType_Refund), JString("other"),
                          JAbsent, JNumber("1")},
     data : {JObject(PayloadMembers(p)) : p \in PayloadDocuments} \cup
            {JNull, JString("x"), JAbsent}]

\* The zero notificationRequestBody and the zero payload.
ZeroNotificationBody == [Version |-> "", Id |-> "", Type |-> "", Data |-> ""]
ZeroPayload == [OrderId |-> "", Quantity |-> "0"]

\* Decoding a member into an int field.
decodeInt(v) == IF v.kind = "number" THEN v.text ELSE "0"
intTypeError(v) == v.kind \notin {"number", "null", "absent"}

\* json.NewDecoder(r.Body).Decode(&body) for a notificationRequestBody.
notificationDecode(text) ==
    IF \E d \in NotificationDocuments : NotificationText(d) = text
    THEN LET d == CHOOSE d \in NotificationDocuments : NotificationText(d) = text
         IN  [err |-> \/ stringTypeError(d.version) \/ stringTypeError(d.notification_id)
                      \/ stringTypeError(d.notification_type),
              body |-> [Version |-> decodeString(d.version),
                        Id |-> decodeString(d.notification_id),
                        Type |-> decodeString(d.notification_type),
                        Data |-> decodeRawMessage(d.data)]]
    ELSE [err |-> TRUE, body |-> ZeroNotificationBody]

\* json.Unmarshal(body.Data, &payload): null leaves the payload zero, an
\* object fills it, with an error for a member of the wrong type; nil bytes
\* and every other value are an error.
payloadUnmarshal(data) ==
    IF data = JNull.text THEN [err |-> FALSE, payload |-> ZeroPayload]
    ELSE IF \E p \in PayloadDocuments : JObject(PayloadMembers(p)).text = data
    THEN LET p == CHOOSE p \in PayloadDocuments : JObject(PayloadMembers(p)).text = data
         IN  [err |-> stringTypeError(p.order_id) \/ intTypeError(p.quantity),
              payload |-> [OrderId |-> decodeString(p.order_id),
                           Quantity |-> decodeInt(p.quantity)]]
    ELSE [err |-> TRUE, payload |-> ZeroPayload]

\* http.Error(w, error, code), and the w.Write([]byte("OK")) of the last line.
httpError(text, code) == [code |-> code, kind |-> "text", err |-> NoError, text |-> text]
writeOK == [code |-> StatusOK, kind |-> "text", err |-> NoError, text |-> "OK"]

\* The listener method a notification type is handed to.
listenerMethod(type) ==
    IF type = notificationType_ShipOrder THEN "HandleShipOrder"
    ELSE IF type = notificationType_Refund THEN "HandleRefund"
    ELSE "none"

\* One call of the NotificationListener and the error it returned.
ListenerCall(method, id, payload, err) ==
    [method |-> method, id |-> id, payload |-> payload, err |-> err]

\* Mutant: the payload is handed to the listener whether or not it decoded.
NotificationServeHTTP_NoPayloadCheck(h, r, timeNow, out) ==
    LET auth == AuthHttp(h, r, timeNow)
        dec == notificationDecode(Yields(auth.r.Body))
        pay == payloadUnmarshal(dec.body.Data)
        quiet(resp) == [w |-> resp, calls |-> <<>>]
    IN  IF r.Method # "POST"
        THEN quiet(httpError("please use POST", StatusMethodNotAllowed))
        ELSE IF ~hasJsonPrefix(r.ContentType)
        THEN quiet(httpError("please use application/json", StatusUnsupportedMediaType))
        ELSE IF auth.err # "nil"
        THEN quiet(httpError(auth.err, StatusUnauthorized))
        ELSE IF dec.err
        THEN quiet(httpError("json: cannot decode", StatusBadRequest))
        ELSE IF listenerMethod(dec.body.Type) = "none"
        THEN quiet(httpError("unknown notification type: " \o dec.body.Type,
                             StatusBadRequest))
        ELSE [w |-> IF out # "nil" THEN httpError(out, StatusInternalServerError)
                    ELSE writeOK,
              calls |-> <<ListenerCall(listenerMethod(dec.body.Type), dec.body.Id,
                                       pay.payload, out)>>]

\* notificationHandler.ServeHTTP: what it writes and the calls of the listener
\* it makes; out is the error the listener returns when it is called.
NotificationServeHTTP(h, r, timeNow, out) ==
    LET auth == AuthHttp(h, r, timeNow)
        dec == notificationDecode(Yields(auth.r.Body))
        pay == payloadUnmarshal(dec.body.Data)
        quiet(resp) == [w |-> resp, calls |-> <<>>]
    IN  IF r.Method # "POST"
        THEN quiet(httpError("please use POST", StatusMethodNotAllowed))
        ELSE IF ~hasJsonPrefix(r.ContentType)
        THEN quiet(httpError("please use application/json", StatusUnsupportedMediaType))
        ELSE IF auth.err # "nil"
        THEN quiet(httpError(auth.err, StatusUnauthorized))
        ELSE IF dec.err
        THEN quiet(httpError("json: cannot decode", StatusBadRequest))
        ELSE IF listenerMethod(dec.body.Type) = "none"
        THEN quiet(httpError("unknown notification type: " \o dec.body.Type,
                             StatusBadRequest))
        ELSE IF pay.err
        THEN quiet(httpError("json: cannot unmarshal", StatusBadRequest))
        ELSE [w |-> IF out # "nil" THEN httpError(out, StatusInternalServerError)
                    ELSE writeOK,
              calls |-> <<ListenerCall(listenerMethod(dec.body.Type), dec.body.Id,
                                       pay.payload, out)>>]


\* ------------------------------------------------------------- initial state

EmptyMap == [k \in {} |-> EmptyString]
NoExpiry == [k \in {} |-> 0]

\* A direct caller of the store that has not called yet.  old and ok are the
\* locals of the in-memory store's methods, ret and err what the call returned,
\* life the number of expiries of the key before the call ran.
NoCall ==
    [op |-> "none", key |-> "", value |-> EmptyString, pc |-> "idle",
     old |-> EmptyString, ok |-> FALSE, ret |-> EmptyString, err |-> NilErr, life |-> 0]

\* The value caller c passes: a non-empty string of its own.
StoreValue(c) == [s |-> "v" \o ToString(c)]

\* No HandleGmRequest call has begun.
NoAttempts ==
    /\ kv = EmptyMap
    /\ expiry = NoExpiry
    /\ now = 0
    /\ started = 0
    /\ pc = [a \in Attempts |-> "idle"]
    /\ req = [a \in Attempts |-> NoRequest]
    /\ record = [a \in Attempts |-> NilRecord]
    /\ oldRecordStr = [a \in Attempts |-> EmptyString]
    /\ result = [a \in Attempts |-> NoResult]
    /\ faults = 0
    /\ path = [a \in Attempts |-> "none"]
    /\ outcome = [a \in Attempts |-> NoOutcome]
    /\ execCalls = [a \in Attempts |-> 0]
    /\ nxCalls = [a \in Attempts |-> 0]
    /\ xxCalls = [a \in Attempts |-> 0]
    /\ created = [k \in Keys |-> 0]
    /\ expired = [k \in Keys |-> 0]

\* No direct call of the store has begun.
NoStoreCalls ==
    /\ mu = 0
    /\ call = [c \in StoreCallers |-> NoCall]

\* No request is signed or verified.
NoSigning ==
    /\ signerOf = [game |-> "g1", signingKey |-> "sk1"]
    /\ verifierOf = [game |-> "g1", signingKey |-> "sk1"]
    /\ hreq = NoHttpRequest
    /\ hphase = "none"
    /\ signedAt = 0
    /\ signedReq = NoHttpRequest
    /\ changes = {}
    /\ authAt = 0
    /\ authReq = NoHttpRequest
    /\ signErr = NotCalled
    /\ authErr = NotCalled

\* The inbound request of a handler that was given none: the server's empty
\* body, no headers.
NoInbound ==
    [Method |-> "", URI |-> "", Body |-> BodyOf(""), Authorization |-> NoHeader,
     ContentType |-> ContentType("", "")]

\* No request is being served.
NoHandling ==
    /\ inbound = NoInbound
    /\ hstate = "idle"
    /\ servedAt = 0
    /\ response = NoResponse
    /\ gmCalls = 0
    /\ gmCall = NoGmRequest
    /\ gmOutcome = NoOutcome
    /\ notified = <<>>

InitAttempts ==
    /\ requests \in Workloads
    /\ NoAttempts
    /\ NoStoreCalls
    /\ NoSigning
    /\ NoHandling

\* NewMemoryIdempotencyStore: an empty map, nothing expires.
InitMemory ==
    /\ storeKind = "memory"
    /\ ttl = 0
    /\ InitAttempts

\* NewRedisIdempotencyStore over an empty keyspace.
InitRedis ==
    /\ storeKind = "redis"
    /\ ttl \in {NewRedisTTL(c) : c \in TTLConfigs}
    /\ InitAttempts

Init == InitMemory \/ InitRedis

\* ------------------------------------------------------------------ actions

\* Attempt a is at its SetNX with request r: a new call, or a try after a lost reply.
Ready(a, r) ==
    \/ pc[a] = "idle" /\ a = started + 1 /\ r \in requests
    \/ pc[a] = "retry" /\ r = req[a]

Begin(a, r) ==
    /\ req' = [req EXCEPT ![a] = r]
    /\ started' = IF pc[a] = "idle" THEN a ELSE started

\* The bookkeeping of a SetNX that reached the store.
Created(key) == IF key \in DOMAIN kv THEN created ELSE [created EXCEPT ![key] = @ + 1]

\* Mutant: the call without a key returns the serialized result, as
\* processRequest does.
directResult_Serialized(out) ==
    [resp |-> RawMessage(jsonMarshalAny(out.resp)), err |-> out.err]

\* HandleGmRequest without an idempotency key returns what the wrapped listener
\* returned, as it is.
directResult(out) == [resp |-> out.resp, err |-> out.err]

\* HandleGmRequest without an idempotency key: the wrapped listener is called
\* and what it returns is returned.
DispatchNoKey(a, r, out) ==
    /\ Ready(a, r) /\ pc[a] = "idle"
    /\ r.IdempotencyKey = NoKey
    /\ Begin(a, r)
    /\ pc' = [pc EXCEPT ![a] = "done"]
    /\ path' = [path EXCEPT ![a] = "direct"]
    /\ outcome' = [outcome EXCEPT ![a] = out]
    /\ result' = [result EXCEPT ![a] = directResult(out)]
    /\ execCalls' = [execCalls EXCEPT ![a] = @ + 1]
    /\ UNCHANGED <<requests, oldRecordStr, storeKind, ttl, kv, expiry, now, record, faults, nxCalls, xxCalls,
                   created, expired>>
    /\ UNCHANGED otherVars

\* HandleGmRequest without an idempotency key, the wrapped listener panics.
DispatchNoKeyPanic(a, r) ==
    /\ Ready(a, r) /\ pc[a] = "idle"
    /\ r.IdempotencyKey = NoKey
    /\ Begin(a, r)
    /\ pc' = [pc EXCEPT ![a] = "panicked"]
    /\ path' = [path EXCEPT ![a] = "direct"]
    /\ execCalls' = [execCalls EXCEPT ![a] = @ + 1]
    /\ UNCHANGED <<requests, oldRecordStr, storeKind, ttl, kv, expiry, now, record, result, faults, outcome,
                   nxCalls, xxCalls, created, expired>>
    /\ UNCHANGED otherVars

\* uuid.NewRandom fails.
NonceFail(a, r) ==
    /\ Ready(a, r) /\ pc[a] = "idle"
    /\ r.IdempotencyKey # NoKey
    /\ Begin(a, r)
    /\ pc' = [pc EXCEPT ![a] = "done"]
    /\ path' = [path EXCEPT ![a] = "nonce_error"]
    /\ result' = [result EXCEPT ![a] = InternalError("failed to generate nonce")]
    /\ UNCHANGED <<requests, oldRecordStr, storeKind, ttl, kv, expiry, now, record, faults, outcome,
                   execCalls, nxCalls, xxCalls, created, expired>>
    /\ UNCHANGED otherVars

\* HandleGmRequest from SetNX (which returns without error) to the branch on
\* firstTimeRequest; previousResponse when it is no first-time request.
Claim(a, r) ==
    /\ Ready(a, r)
    /\ r.IdempotencyKey # NoKey
    /\ Begin(a, r)
    /\ LET rec == newRecord(a, r)
           st == SetNX(r.IdempotencyKey, jsonMarshalRecord(rec))
           old == parseOldRecord(st.old)
       IN  /\ kv' = st.kv
           /\ expiry' = st.expiry
           /\ oldRecordStr' = [oldRecordStr EXCEPT ![a] = st.old]
           /\ created' = Created(r.IdempotencyKey)
           /\ nxCalls' = [nxCalls EXCEPT ![a] = @ + 1]
           /\ IF old.err
              THEN /\ pc' = [pc EXCEPT ![a] = "done"]
                   /\ path' = [path EXCEPT ![a] = "parse_error"]
                   /\ result' = [result EXCEPT ![a] =
                          InternalError("failed to unmarshal old idempotency record")]
                   /\ UNCHANGED record
              ELSE IF firstTimeRequest(old, rec)
              THEN /\ pc' = [pc EXCEPT ![a] = "exec"]
                   /\ path' = [path EXCEPT ![a] = "first"]
                   /\ record' = [record EXCEPT ![a] = rec]
                   /\ UNCHANGED result
              ELSE /\ pc' = [pc EXCEPT ![a] = "done"]
                   /\ path' = [path EXCEPT ![a] = "replay"]
                   /\ result' = [result EXCEPT ![a] = previousResponse(r, old.rec)]
                   /\ UNCHANGED record
    /\ UNCHANGED <<requests, storeKind, ttl, now, faults, outcome, execCalls, xxCalls, expired>>
    /\ UNCHANGED otherVars

\* Redis: the reply of a SetNX try is lost (the command may or may not have run
\* on the server) and go-redis tries again; one lost try per call is modelled.
ClaimLost(a, r, applied) ==
    /\ storeKind = "redis"
    /\ Ready(a, r)
    /\ r.IdempotencyKey # NoKey
    /\ pc[a] = "idle"
    /\ faults < MaxFaults
    /\ Begin(a, r)
    /\ LET st == SetNX(r.IdempotencyKey, jsonMarshalRecord(newRecord(a, r)))
       IN  IF applied
           THEN kv' = st.kv /\ expiry' = st.expiry /\ created' = Created(r.IdempotencyKey)
           ELSE UNCHANGED <<kv, expiry, created>>
    /\ pc' = [pc EXCEPT ![a] = "retry"]
    /\ faults' = faults + 1
    /\ UNCHANGED <<requests, oldRecordStr, storeKind, ttl, now, record, result, path, outcome, execCalls,
                   nxCalls, xxCalls, expired>>
    /\ UNCHANGED otherVars

\* Mutant: a failed SetNX is ignored and the command is executed (fail open).
setNXErrorBranch_FailOpen == [pc |-> "exec", result |-> NoResult]

\* HandleGmRequest when SetNX returned an error: where the call goes next and
\* what it returns.
setNXErrorBranch ==
    [pc |-> "done", result |-> InternalError("failed to SetNX idempotency record")]

\* Redis: SetNX returns an error (the command may or may not have run).
ClaimFail(a, r, applied) ==
    /\ storeKind = "redis"
    /\ Ready(a, r)
    /\ r.IdempotencyKey # NoKey
    /\ faults < MaxFaults
    /\ faults' = faults + 1
    /\ Begin(a, r)
    /\ LET st == SetNX(r.IdempotencyKey, jsonMarshalRecord(newRecord(a, r)))
       IN  IF applied
           THEN kv' = st.kv /\ expiry' = st.expiry /\ created' = Created(r.IdempotencyKey)
           ELSE UNCHANGED <<kv, expiry, created>>
    /\ pc' = [pc EXCEPT ![a] = setNXErrorBranch.pc]
    /\ path' = [path EXCEPT ![a] = "setnx_error"]
    /\ result' = [result EXCEPT ![a] = setNXErrorBranch.result]
    /\ nxCalls' = [nxCalls EXCEPT ![a] = @ + 1]
    /\ UNCHANGED <<requests, oldRecordStr, storeKind, ttl, now, record, outcome, execCalls,
                   xxCalls, expired>>
    /\ UNCHANGED otherVars

\* processRequest up to saveIdempotencyRecord: the wrapped listener is called
\* and returns out; the local record takes the outcome.
Exec(a, out) ==
    /\ pc[a] = "exec"
    /\ pc' = [pc EXCEPT ![a] = "save"]
    /\ outcome' = [outcome EXCEPT ![a] = out]
    /\ record' = [record EXCEPT ![a] = processedRecord(record[a], out)]
    /\ execCalls' = [execCalls EXCEPT ![a] = @ + 1]
    /\ UNCHANGED <<requests, oldRecordStr, storeKind, ttl, kv, expiry, now, started, req, result, faults, path,
                   nxCalls, xxCalls, created, expired>>
    /\ UNCHANGED otherVars

\* processRequest: the wrapped listener panics; nothing after the call runs.
ExecPanic(a) ==
    /\ pc[a] = "exec"
    /\ pc' = [pc EXCEPT ![a] = "panicked"]
    /\ execCalls' = [execCalls EXCEPT ![a] = @ + 1]
    /\ UNCHANGED <<requests, oldRecordStr, storeKind, ttl, kv, expiry, now, started, req, record, result, faults,
                   path, outcome, nxCalls, xxCalls, created, expired>>
    /\ UNCHANGED otherVars

\* Mutant: processRequest turns a failed SetXX into an InternalError.
processResult_PropagatesError(rec, setXXFailed) ==
    IF setXXFailed
    THEN InternalError("failed to SetXX idempotency record")
    ELSE [resp |-> RawMessage(rec.Resp), err |-> rec.Error]

\* What processRequest returns after saveIdempotencyRecord, which hands no
\* error back: the return is the same whether or not SetXX failed.
processResult(rec, setXXFailed) == [resp |-> RawMessage(rec.Resp), err |-> rec.Error]

\* saveIdempotencyRecord with a SetXX that reaches the store and whose reply
\* arrives (an error only when the key is gone), and processRequest's return.
Save(a) ==
    /\ pc[a] = "save"
    /\ LET st == SetXX(record[a].Key, jsonMarshalRecord(record[a]))
       IN  /\ kv' = st.kv /\ expiry' = st.expiry
           /\ result' = [result EXCEPT ![a] = processResult(record[a], st.err # NilErr)]
    /\ xxCalls' = [xxCalls EXCEPT ![a] = @ + 1]
    /\ pc' = [pc EXCEPT ![a] = "done"]
    /\ UNCHANGED <<requests, oldRecordStr, storeKind, ttl, now, started, req, record, faults, path, outcome,
                   execCalls, nxCalls, created, expired>>
    /\ UNCHANGED otherVars

\* Redis: SetXX returns an error (the command may or may not have run); the
\* error is logged and processRequest returns as usual.
SaveFail(a, applied) ==
    /\ storeKind = "redis"
    /\ pc[a] = "save"
    /\ faults < MaxFaults
    /\ faults' = faults + 1
    /\ LET st == SetXX(record[a].Key, jsonMarshalRecord(record[a]))
       IN  IF applied
           THEN kv' = st.kv /\ expiry' = st.expiry
           ELSE UNCHANGED <<kv, expiry>>
    /\ xxCalls' = [xxCalls EXCEPT ![a] = @ + 1]
    /\ result' = [result EXCEPT ![a] = processResult(record[a], TRUE)]
    /\ pc' = [pc EXCEPT ![a] = "done"]
    /\ path' = [path EXCEPT ![a] = IF applied THEN "first_save_error" ELSE "first_unsaved"]
    /\ UNCHANGED <<requests, oldRecordStr, storeKind, ttl, now, started, req, record, outcome,
                   execCalls, nxCalls, created, expired>>
    /\ UNCHANGED otherVars

\* Redis: time passes; keys whose TTL has run out are gone.
Tick ==
    /\ storeKind = "redis"
    /\ now + TickHours <= MaxTime
    /\ now' = now + TickHours
    /\ LET live == {k \in DOMAIN kv : expiry[k] > now + TickHours}
       IN  /\ kv' = [k \in live |-> kv[k]]
           /\ expiry' = [k \in live |-> expiry[k]]
           /\ expired' = [k \in Keys |->
                             IF k \in DOMAIN kv /\ k \notin live
                             THEN expired[k] + 1 ELSE expired[k]]
    /\ UNCHANGED <<requests, oldRecordStr, storeKind, ttl, started, pc, req, record, result, faults, path,
                   outcome, execCalls, nxCalls, xxCalls, created>>
    /\ UNCHANGED otherVars


\* ------------------------------------------- direct calls of the store

\* Mutant: s.mu is not taken.
lockFree_NoMutex(m) == TRUE

\* s.mu.Lock() returns when the mutex is free.
lockFree(m) == m = 0

\* memoryIdempotencyStore.SetNX / SetXX: s.mu.Lock().
MemLock(c, op, key) ==
    /\ storeKind = "memory"
    /\ call[c].pc = "idle"
    /\ lockFree(mu)
    /\ mu' = c
    /\ call' = [call EXCEPT ![c] = [NoCall EXCEPT !.op = op, !.key = key,
                                        !.value = StoreValue(c), !.pc = "locked"]]
    /\ UNCHANGED listenerVars
    /\ UNCHANGED beyondStore

\* memoryIdempotencyStore.SetNX / SetXX: oldValue, ok := s.kv[key].
MemLookup(c) ==
    /\ call[c].pc = "locked"
    /\ call' = [call EXCEPT ![c].pc = "looked",
                            ![c].ok = call[c].key \in DOMAIN kv,
                            ![c].old = IF call[c].key \in DOMAIN kv
                                       THEN kv[call[c].key] ELSE EmptyString]
    /\ UNCHANGED <<listenerVars, mu>>
    /\ UNCHANGED beyondStore

\* Mutant: SetNX stores the value also when the key is there.
MemSetNXReturn_Overwrite(c) ==
    /\ call[c].pc = "looked" /\ call[c].op = "SetNX"
    /\ kv' = (call[c].key :> call[c].value) @@
             [k \in DOMAIN kv \ {call[c].key} |-> kv[k]]
    /\ call' = [call EXCEPT ![c].pc = "returned", ![c].ret = call[c].old]
    /\ mu' = 0
    /\ UNCHANGED <<requests, storeKind, ttl, expiry, now, started, pc, req, record,
                   oldRecordStr, result, faults, path, outcome, execCalls, nxCalls,
                   xxCalls, created, expired>>
    /\ UNCHANGED beyondStore

\* memoryIdempotencyStore.SetNX from "if ok" to the return and the deferred
\* Unlock.
MemSetNXReturn(c) ==
    /\ call[c].pc = "looked" /\ call[c].op = "SetNX"
    /\ IF call[c].ok
       THEN /\ call' = [call EXCEPT ![c].pc = "returned", ![c].ret = call[c].old]
            /\ UNCHANGED kv
       ELSE /\ kv' = (call[c].key :> call[c].value) @@
                     [k \in DOMAIN kv \ {call[c].key} |-> kv[k]]
            /\ call' = [call EXCEPT ![c].pc = "returned", ![c].ret = EmptyString]
    /\ mu' = 0
    /\ UNCHANGED <<requests, storeKind, ttl, expiry, now, started, pc, req, record,
                   oldRecordStr, result, faults, path, outcome, execCalls, nxCalls,
                   xxCalls, created, expired>>
    /\ UNCHANGED beyondStore

\* memoryIdempotencyStore.SetXX from "if ok" to the return and the deferred
\* Unlock.
MemSetXXReturn(c) ==
    /\ call[c].pc = "looked" /\ call[c].op = "SetXX"
    /\ IF call[c].ok
       THEN kv' = [kv EXCEPT ![call[c].key] = call[c].value]
       ELSE UNCHANGED kv
    /\ call' = [call EXCEPT ![c].pc = "returned", ![c].err = NilErr]
    /\ mu' = 0
    /\ UNCHANGED <<requests, storeKind, ttl, expiry, now, started, pc, req, record,
                   oldRecordStr, result, faults, path, outcome, execCalls, nxCalls,
                   xxCalls, created, expired>>
    /\ UNCHANGED beyondStore

\* redisIdempotencyStore.SetNX: the server runs the SET and the reply arrives;
\* redis.Nil becomes "".
RedisSetNXCall(c, key) ==
    /\ storeKind = "redis"
    /\ call[c].pc = "idle"
    /\ LET st == redisSetNX(kv, expiry, key, StoreValue(c), ttl, now)
       IN  /\ kv' = st.kv
           /\ expiry' = st.expiry
           /\ call' = [call EXCEPT ![c] = [NoCall EXCEPT !.op = "SetNX", !.key = key,
                                               !.value = StoreValue(c), !.pc = "returned",
                                               !.ret = st.old, !.life = expired[key]]]
    /\ UNCHANGED <<requests, storeKind, ttl, now, started, pc, req, record,
                   oldRecordStr, result, faults, path, outcome, execCalls, nxCalls,
                   xxCalls, created, expired, mu>>
    /\ UNCHANGED beyondStore

\* redisIdempotencyStore.SetXX: the server runs the SET and the reply arrives.
RedisSetXXCall(c, key) ==
    /\ storeKind = "redis"
    /\ call[c].pc = "idle"
    /\ LET st == redisSetXX(kv, expiry, key, StoreValue(c))
       IN  /\ kv' = st.kv
           /\ expiry' = st.expiry
           /\ call' = [call EXCEPT ![c] = [NoCall EXCEPT !.op = "SetXX", !.key = key,
                                               !.value = StoreValue(c), !.pc = "returned",
                                               !.err = st.err, !.life = expired[key]]]
    /\ UNCHANGED <<requests, storeKind, ttl, now, started, pc, req, record,
                   oldRecordStr, result, faults, path, outcome, execCalls, nxCalls,
                   xxCalls, created, expired, mu>>
    /\ UNCHANGED beyondStore

\* ----------------------------------------- signing and verifying a request

Games == {"g1", "g2"}
SecretKeys == {"sk1", "sk2"}

\* The instants at which requests are signed: every tick of SignSecond.
SignTimes == {SignSecond * TicksPerSecond + f : f \in 0..(TicksPerSecond - 1)}

\* Distances from the start of SignSecond at which requests are verified.
AuthDistances ==
    {0, 1, maxTimeDiff - TicksPerSecond, maxTimeDiff - 1, maxTimeDiff, maxTimeDiff + 1,
     maxTimeDiff + TicksPerSecond}

\* The instants at which requests are verified, before and after SignSecond.
AuthTimes ==
    {SignSecond * TicksPerSecond + d : d \in AuthDistances} \cup
    {SignSecond * TicksPerSecond - d : d \in AuthDistances}

\* Header values a request may carry before it is signed.
ForeignHeader == <<Word("Bearer"), Sp, Word("token"), Eq, Word("x")>>

\* The requests handed to SignHttp.
InitialRequests ==
    {[Method |-> "POST", URI |-> "/gm", Body |-> b, Authorization |-> h] :
        b \in {NilBody, BodyOf("b1"), FailingBody}, h \in {NoHeader, ForeignHeader}}

\* header with every piece of kind t replaced by the piece p.
WithPiece(header, t, p) ==
    [i \in DOMAIN header |-> IF header[i].t = t THEN p ELSE header[i]]

\* header with the value of its leading Game parameter replaced by game.
WithGame(header, game) ==
    LET commas == {i \in DOMAIN header : i > 4 /\ header[i].t = "comma" /\
                      \E j \in (i + 1)..Len(header) : header[j] = Word("Timestamp") /\
                          \A k \in (i + 1)..(j - 1) : header[k].t = "sp"}
    IN  IF Len(header) > 4 /\ header[3] = Word("Game") /\ header[4] = Eq /\ commas # {}
        THEN SubSeq(header, 1, 4) \o GamePieces(game) \o
             SubSeq(header, CHOOSE i \in commas : TRUE, Len(header))
        ELSE header

\* header with a space put after every comma.
RECURSIVE SpacesAfterCommas(_)
SpacesAfterCommas(header) ==
    IF header = <<>> THEN <<>>
    ELSE IF Head(header).t = "comma"
    THEN <<Comma, Sp>> \o SpacesAfterCommas(Tail(header))
    ELSE <<Head(header)>> \o SpacesAfterCommas(Tail(header))

\* header with every parameter value wrapped in double quotes.
RECURSIVE QuotedValues(_)
QuotedValues(header) ==
    IF header = <<>> THEN <<>>
    ELSE IF Head(header).t = "eq"
    THEN <<Eq, Quote>> \o QuotedValues(Tail(header))
    ELSE IF Head(header).t = "comma"
    THEN <<Quote, Comma>> \o QuotedValues(Tail(header))
    ELSE IF Len(header) = 1
    THEN <<Head(header), Quote>>
    ELSE <<Head(header)>> \o QuotedValues(Tail(header))

\* header with a parameter of an unrecognized name at its end.
WithExtraParameter(header) == header \o <<Comma, Word("Extra"), Eq, Word("x")>>

\* header without the space that follows the scheme.
WithoutSchemeSpace(header) ==
    IF Len(header) > 1 /\ header[2].t = "sp"
    THEN <<header[1]>> \o SubSeq(header, 3, Len(header))
    ELSE header

\* header without the "=" of its last parameter.
WithoutLastEq(header) ==
    LET eqs == {i \in DOMAIN header : header[i].t = "eq"}
    IN  IF eqs = {} THEN header
        ELSE LET last == CHOOSE i \in eqs : \A j \in eqs : i >= j
             IN  SubSeq(header, 1, last - 1) \o SubSeq(header, last + 1, Len(header))

\* header with a second "=" in its Timestamp parameter.
WithSecondEq(header) ==
    LET i == IndexOf(header, "ts")
    IN  IF i = 0 THEN header
        ELSE SubSeq(header, 1, i) \o <<Eq, Word("x")>> \o SubSeq(header, i + 1, Len(header))

\* The values a part of the signed request can be changed to.
ChangedValues(part, r) ==
    IF part = "method" THEN {[r EXCEPT !.Method = "GET"]}
    ELSE IF part = "uri" THEN {[r EXCEPT !.URI = "/gm?x=1"]}
    ELSE IF part = "body"
    THEN {[r EXCEPT !.Body = b] : b \in {BodyOf("b2"), FailingBody}}
    ELSE IF part = "timestamp"
    THEN {[r EXCEPT !.Authorization = WithPiece(@, "ts", TsPiece(ts))] :
            ts \in {TimestampText(SignSecond, 0), TimestampText(SignSecond, 1),
                    TimestampText(SignSecond + 1, -1),
                    TimestampText(SignSecond - MaxTimeDiffSeconds - 1, -1),
                    BadTimestampText}}
    ELSE IF part = "game"
    THEN {[r EXCEPT !.Authorization = WithGame(@, g)] : g \in Games}
    ELSE IF part = "signature"
    THEN {[r EXCEPT !.Authorization = WithPiece(@, "sig", SigPiece(NoSignature))]}
    ELSE IF part = "scheme"
    THEN {[r EXCEPT !.Authorization = [i \in DOMAIN @ |-> IF i = 1 THEN Word("Bearer") ELSE @[i]]]}
    ELSE IF part = "header"
    THEN {[r EXCEPT !.Authorization = h] :
            h \in {NoHeader, WithoutSchemeSpace(r.Authorization),
                   WithoutLastEq(r.Authorization), WithExtraParameter(r.Authorization)}}
    ELSE IF part = "spaces after commas"
    THEN {[r EXCEPT !.Authorization = SpacesAfterCommas(@)]}
    ELSE IF part = "quoted values"
    THEN {[r EXCEPT !.Authorization = QuotedValues(@)]}
    ELSE IF part = "extra parameter"
    THEN {[r EXCEPT !.Authorization = WithExtraParameter(@)]}
    ELSE IF part = "no space after scheme"
    THEN {[r EXCEPT !.Authorization = WithoutSchemeSpace(@)]}
    ELSE IF part = "no equals sign"
    THEN {[r EXCEPT !.Authorization = WithoutLastEq(@)]}
    ELSE {[r EXCEPT !.Authorization = WithSecondEq(@)]}

ChangeableParts ==
    {"method", "uri", "body", "timestamp", "game", "signature", "scheme", "header"}

\* The ways the text of a header value can be laid out differently.
LayoutParts ==
    {"spaces after commas", "quoted values", "extra parameter", "no space after scheme",
     "no equals sign", "second equals sign"}

\* A request not yet signed, a signer and a verifier.
InitSigner ==
    /\ signerOf = [game |-> "g1", signingKey |-> "sk1"]
    /\ verifierOf \in [game : Games, signingKey : SecretKeys]
    /\ hreq \in InitialRequests
    /\ hphase = "unsigned"
    /\ signedAt = 0
    /\ signedReq = hreq
    /\ changes = {}
    /\ authAt = 0
    /\ authReq = hreq
    /\ signErr = NotCalled
    /\ authErr = NotCalled
    /\ storeKind = "memory" /\ ttl = 0 /\ requests = {}
    /\ NoAttempts
    /\ NoStoreCalls
    /\ NoHandling

\* The sender calls SignHttp.
Sign(t) ==
    /\ hphase = "unsigned"
    /\ LET out == SignHttp(signerOf, hreq, t)
       IN  /\ hreq' = out.r
           /\ signedReq' = out.r
           /\ signErr' = out.err
           /\ hphase' = IF out.err = "nil" THEN "signed" ELSE "sign failed"
    /\ signedAt' = t
    /\ UNCHANGED <<signerOf, verifierOf, changes, authAt, authReq, authErr>>
    /\ UNCHANGED beyondSigner

\* Somebody between sender and receiver changes one part of the signed request.
Change(part) ==
    /\ hphase = "signed"
    /\ part \notin changes
    /\ Cardinality(changes) < MaxChanges
    /\ \E r \in ChangedValues(part, hreq) :
          r # hreq /\ hreq' = r
    /\ changes' = changes \cup {part}
    /\ UNCHANGED <<signerOf, verifierOf, hphase, signedAt, signedReq, authAt, authReq,
                   signErr, authErr>>
    /\ UNCHANGED beyondSigner

\* The receiver calls AuthHttp.
Auth(t) ==
    /\ hphase \in {"unsigned", "signed"}
    /\ LET out == AuthHttp(verifierOf, hreq, t)
       IN  /\ hreq' = out.r
           /\ authErr' = out.err
    /\ authReq' = hreq
    /\ authAt' = t
    /\ hphase' = "verified"
    /\ UNCHANGED <<signerOf, verifierOf, signedAt, signedReq, changes, signErr>>
    /\ UNCHANGED beyondSigner

\* ------------------------------------------------------------ specifications

\* A listener over the in-memory store.
NextMemory ==
    \/ \E a \in Attempts, r \in Requests, out \in ExecOutcomes : DispatchNoKey(a, r, out)
    \/ \E a \in Attempts, r \in Requests : DispatchNoKeyPanic(a, r)
    \/ \E a \in Attempts, r \in Requests : NonceFail(a, r)
    \/ \E a \in Attempts, r \in Requests : Claim(a, r)
    \/ \E a \in Attempts, out \in ExecOutcomes : Exec(a, out)
    \/ \E a \in Attempts : ExecPanic(a)
    \/ \E a \in Attempts : Save(a)

\* A listener over either store.
Next ==
    \/ NextMemory
    \/ \E a \in Attempts, r \in Requests, applied \in BOOLEAN : ClaimLost(a, r, applied)
    \/ \E a \in Attempts, r \in Requests, applied \in BOOLEAN : ClaimFail(a, r, applied)
    \/ \E a \in Attempts, applied \in BOOLEAN : SaveFail(a, applied)
    \/ Tick

Spec == Init /\ [][Next]_vars

SpecMemory == InitMemory /\ [][NextMemory]_vars

\* RedisIdempotencyStoreConfig.TTL values (hours) of a store that is called
\* directly: negative, not given, and longer than the default.
StoreTTLConfigs == {0 - DefaultTTLHours, 0, 2 * DefaultTTLHours}

\* A store of either kind with no listener: nothing but direct calls.
InitStore ==
    /\ \/ storeKind = "memory" /\ ttl = 0
       \/ storeKind = "redis" /\ ttl \in {NewRedisTTL(c) : c \in StoreTTLConfigs}
    /\ requests = {}
    /\ NoAttempts
    /\ NoStoreCalls
    /\ NoSigning
    /\ NoHandling

\* Goroutines calling SetNX and SetXX of one store, and the Redis clock.
NextStore ==
    \/ \E c \in StoreCallers, op \in {"SetNX", "SetXX"}, key \in Keys : MemLock(c, op, key)
    \/ \E c \in StoreCallers : MemLookup(c)
    \/ \E c \in StoreCallers : MemSetNXReturn(c)
    \/ \E c \in StoreCallers : MemSetXXReturn(c)
    \/ \E c \in StoreCallers, key \in Keys : RedisSetNXCall(c, key)
    \/ \E c \in StoreCallers, key \in Keys : RedisSetXXCall(c, key)
    \/ Tick

SpecStore == InitStore /\ [][NextStore]_vars

\* One request signed, possibly changed on the way, and verified.
NextSigner ==
    \/ \E t \in SignTimes : Sign(t)
    \/ \E part \in ChangeableParts : Change(part)
    \/ \E t \in AuthTimes : Auth(t)

SpecSigner == InitSigner /\ [][NextSigner]_vars

\* ------------------------------------- writing and parsing the header value

\* A request not yet signed; the verifier is the signer.
InitHeader ==
    /\ signerOf \in [game : {"g1", CommaGame}, signingKey : {"sk1"}]
    /\ verifierOf = signerOf
    /\ hreq \in InitialRequests
    /\ hphase = "unsigned"
    /\ signedAt = 0
    /\ signedReq = hreq
    /\ changes = {}
    /\ authAt = 0
    /\ authReq = hreq
    /\ signErr = NotCalled
    /\ authErr = NotCalled
    /\ storeKind = "memory" /\ ttl = 0 /\ requests = {}
    /\ NoAttempts
    /\ NoStoreCalls
    /\ NoHandling

\* The text of the header value of the signed request is laid out differently.
Relayout(part) ==
    /\ hphase = "signed"
    /\ part \notin changes
    /\ Cardinality(changes) < MaxChanges
    /\ \E r \in ChangedValues(part, hreq) :
          r # hreq /\ hreq' = r
    /\ changes' = changes \cup {part}
    /\ UNCHANGED <<signerOf, verifierOf, hphase, signedAt, signedReq, authAt, authReq,
                   signErr, authErr>>
    /\ UNCHANGED beyondSigner

NextHeader ==
    \/ \E t \in SignTimes : Sign(t)
    \/ \E part \in LayoutParts : Relayout(part)
    \/ \E t \in SignTimes : Auth(t)

SpecHeader == InitHeader /\ [][NextHeader]_vars

\* ------------------------------- a listener on a store that others write to

\* The other client of the Redis keyspace.
OtherClient == 1

\* A listener over a Redis store.
InitShared ==
    /\ InitRedis
    /\ \A r \in requests : r.IdempotencyKey # NoKey

\* HandleGmRequest calls with a key, and a client that writes values of its own
\* under the keys of the listener.
NextShared ==
    \/ \E a \in Attempts, r \in Requests : Claim(a, r)
    \/ \E a \in Attempts, out \in ExecOutcomes : Exec(a, out)
    \/ \E a \in Attempts : Save(a)
    \/ RedisSetNXCall(OtherClient, BaseRequest.IdempotencyKey)
    \/ RedisSetXXCall(OtherClient, BaseRequest.IdempotencyKey)

SpecShared == InitShared /\ [][NextShared]_vars

\* ------------------------------------------------------ gmHandler actions

\* gmHandler.signer: the game and key the handler was built with.
HandlerSigner == [game |-> "g1", signingKey |-> "sk1"]

\* Who sends: the platform with the game's key, a sender with another key,
\* and a sender that does not sign.
Senders == {HandlerSigner, [game |-> "g1", signingKey |-> "sk2"]}

\* The Content-Type values sent.
ContentTypes ==
    {ContentType("application/json", ""), ContentType("application/json", "; charset=utf-8"),
     ContentType("text/plain", ""), ContentType("", "")}

\* The bodies sent: envelopes and texts that are no JSON.
InboundBodies == {JsonText(d) : d \in JsonDocuments} \cup MalformedTexts

\* The requests before they are signed.
UnsignedInbound ==
    {[Method |-> m, URI |-> "/gm", Body |-> BodyOf(b), Authorization |-> NoHeader,
      ContentType |-> ct] :
        m \in {"POST", "GET"}, b \in InboundBodies, ct \in ContentTypes}

\* The requests that arrive: unsigned, or signed at SignSecond by a sender.
InboundRequests ==
    UnsignedInbound \cup
    {SignHttp(s, r, SignSecond * TicksPerSecond).r : s \in Senders, r \in UnsignedInbound}

\* time.Now() when the request is served: at once, or when its timestamp has
\* become too old.
ServeTimes ==
    {SignSecond * TicksPerSecond, SignSecond * TicksPerSecond + maxTimeDiff + 1}

\* What the listener may return: a response, a response json.Marshal rejects,
\* a nil response, or an error with a declared or an undeclared code.
ListenerOutcomes ==
    {[resp |-> Value("v1"), err |-> NoError],
     [resp |-> Value("chan"), err |-> NoError],
     [resp |-> Nil, err |-> NoError]} \cup
    {[resp |-> Nil, err |-> GmErrorResponse(c, "failed")] :
        c \in ClientErrors \cup ServerErrors \cup {UndeclaredError}}

\* A handler that has served nothing yet.
InitHandler ==
    /\ NoHandling
    /\ storeKind = "memory" /\ ttl = 0 /\ requests = {}
    /\ NoAttempts
    /\ NoStoreCalls
    /\ NoSigning

\* The server hands the request r to ServeHTTP.  The handler keeps nothing from
\* one request to the next, so a behaviour follows one request.
Arrive(r) ==
    /\ hstate = "idle"
    /\ inbound' = r
    /\ hstate' = "received"
    /\ servedAt' = 0
    /\ response' = NoResponse
    /\ gmCalls' = 0
    /\ gmCall' = NoGmRequest
    /\ gmOutcome' = NoOutcome
    /\ notified' = <<>>
    /\ UNCHANGED beyondHandler

\* ServeHTTP runs to its end; the listener, when called, returns out.
Serve(timeNow, out) ==
    /\ hstate = "received"
    /\ LET served == ServeHTTP(HandlerSigner, inbound, timeNow, out)
       IN  /\ response' = served.w
           /\ gmCalls' = IF served.called THEN gmCalls + 1 ELSE gmCalls
           /\ gmCall' = served.gmreq
           /\ gmOutcome' = IF served.called THEN out ELSE NoOutcome
    /\ servedAt' = timeNow
    /\ hstate' = "responded"
    /\ UNCHANGED <<inbound, notified>>
    /\ UNCHANGED beyondHandler

NextHandler ==
    \/ \E r \in InboundRequests : Arrive(r)
    \/ \E t \in ServeTimes, out \in ListenerOutcomes : Serve(t, out)

SpecHandler == InitHandler /\ [][NextHandler]_vars

\* ------------------------------------------- notificationHandler serving

\* The bodies sent: notifications and texts that are no JSON.
NotificationBodies == {NotificationText(d) : d \in NotificationDocuments} \cup MalformedTexts

\* The requests before they are signed.
UnsignedNotifications ==
    {[Method |-> m, URI |-> "/notify", Body |-> BodyOf(b), Authorization |-> NoHeader,
      ContentType |-> ct] :
        m \in {"POST", "GET"}, b \in NotificationBodies, ct \in ContentTypes}

\* The requests that arrive: unsigned, or signed at SignSecond by a sender.
InboundNotifications ==
    UnsignedNotifications \cup
    {SignHttp(s, r, SignSecond * TicksPerSecond).r :
        s \in Senders, r \in UnsignedNotifications}

\* What a method of the listener may return: nil or an error.
NotificationOutcomes == {"nil", "not shipped"}

\* notificationHandler.ServeHTTP runs to its end; the listener, when called,
\* returns out.
ServeNotification(timeNow, out) ==
    /\ hstate = "received"
    /\ LET served == NotificationServeHTTP(HandlerSigner, inbound, timeNow, out)
       IN  /\ response' = served.w
           /\ notified' = notified \o served.calls
    /\ servedAt' = timeNow
    /\ hstate' = "responded"
    /\ UNCHANGED <<inbound, gmCalls, gmCall, gmOutcome>>
    /\ UNCHANGED beyondHandler

NextNotification ==
    \/ \E r \in InboundNotifications : Arrive(r)
    \/ \E t \in ServeTimes, out \in NotificationOutcomes : ServeNotification(t, out)

SpecNotification == InitHandler /\ [][NextNotification]_vars

\* ------------------------------------------------------- claim vocabulary

KeyOf(a) == req[a].IdempotencyKey

\* Attempts carrying key k for which the wrapped listener was called.
Executors(k) == {a \in Attempts : KeyOf(a) = k /\ execCalls[a] >= 1}

\* What a replay of the record written by attempt b returns: the outcome of b
\* as the done record holds it.
RecordedOutcome(b) ==
    LET str == jsonMarshalRecord(processedRecord(newRecord(b, req[b]), outcome[b]))
    IN  [resp |-> RawMessage(str.resp), err |-> str.error]

\* HandleGmRequest returned to a keyed attempt that never called the listener.
ReturnedWithoutExecuting(a) ==
    KeyOf(a) # NoKey /\ pc[a] = "done" /\ execCalls[a] = 0

IsError(res, code) == res.resp = Nil /\ res.err.Error = code

\* The string pending attempt b stores with its SetNX.
PendingString(b) == jsonMarshalRecord(newRecord(b, req[b]))

\* ------------------------------------------------------------------- C1

\* C1 as stated: for every key the wrapped listener is called at most once
\* over the whole history, and a call that does not execute returns
\* IdempotencyConflict, IdempotencyMismatch or the outcome an execution recorded.
C1_AsStated ==
    \A k \in Keys :
        /\ Cardinality(Executors(k)) <= 1
        /\ \A a \in Attempts :
              (KeyOf(a) = k /\ ReturnedWithoutExecuting(a)) =>
                  \/ IsError(result[a], GmError_IdempotencyConflict)
                  \/ IsError(result[a], GmError_IdempotencyMismatch)
                  \/ \E b \in Executors(k) : result[a] = RecordedOutcome(b)

\* C1 as amended: for every key the wrapped listener is called at most once per
\* creation of the key's record, the record is created once unless it expires
\* (never in the in-memory store), no attempt executes twice, and a call that
\* does not execute returns IdempotencyConflict, IdempotencyMismatch,
\* InternalError or the outcome an execution recorded for the key.
C1_AtMostOncePerRecord ==
    /\ \A a \in Attempts : execCalls[a] <= 1
    /\ \A k \in Keys :
        /\ Cardinality(Executors(k)) <= created[k]
        /\ created[k] <= 1 + expired[k]
        /\ storeKind = "memory" => Cardinality(Executors(k)) <= 1
        /\ \A a \in Attempts :
              (KeyOf(a) = k /\ ReturnedWithoutExecuting(a)) =>
                  \/ IsError(result[a], GmError_IdempotencyConflict)
                  \/ IsError(result[a], GmError_IdempotencyMismatch)
                  \/ IsError(result[a], GmError_InternalError)
                  \/ \E b \in Executors(k) : result[a] = RecordedOutcome(b)

\* C1 witness: two calls with one key have returned, one executed and the
\* other returned the recorded outcome without executing.
C1_Witness ==
    \E a, b \in Attempts :
        /\ a # b /\ KeyOf(a) \in Keys /\ KeyOf(a) = KeyOf(b)
        /\ pc[a] = "done" /\ execCalls[a] = 1
        /\ ReturnedWithoutExecuting(b)
        /\ result[b] = RecordedOutcome(a)

\* ------------------------------------------------------------------- C2

\* The calls begun so far that carry key k.
Callers(k) == {a \in Attempts : pc[a] # "idle" /\ KeyOf(a) = k}

SameCommand(S) == \A a, b \in S : req[a].Cmd = req[b].Cmd /\ req[a].Args = req[b].Args

\* What processRequest hands back for the outcome the listener gave attempt a.
FreshOutcome(a) ==
    [resp |-> RawMessage(jsonMarshalAny(outcome[a].resp)), err |-> outcome[a].err]

\* C2 as stated, in its most favourable case (in-memory store, every call past
\* its nonce and its claim, a serializable result): when all calls, carrying one
\* key and one command and arguments, have returned, the command was executed
\* exactly once and all calls returned the identical result.
C2_AsStated ==
    \A k \in Keys :
        ( /\ storeKind = "memory"
          /\ Callers(k) = Attempts
          /\ SameCommand(Callers(k))
          /\ \A a \in Attempts : pc[a] = "done" /\ path[a] \in {"first", "replay"}
          /\ \A a \in Attempts : outcome[a].resp.v \notin Unmarshalable )
        => /\ Cardinality(Executors(k)) = 1
           /\ \A a, b \in Attempts : result[a] = result[b]

\* C2 as amended: among calls carrying one key and one command and arguments,
\* the command is executed at most once per creation of the key's record, and
\* exactly once over the in-memory store when all calls are over and one of them
\* got its nonce; a call that returns gives the outcome of its own execution,
\* the recorded outcome of an execution, IdempotencyConflict or InternalError,
\* and never IdempotencyMismatch.
C2_OneExecutionConflictOrReplay ==
    \A k \in Keys :
        SameCommand(Callers(k)) =>
            /\ Cardinality(Executors(k)) <= created[k]
            /\ ( /\ storeKind = "memory"
                 /\ \A a \in Callers(k) : pc[a] \in {"done", "panicked"}
                 /\ \E a \in Callers(k) : path[a] # "nonce_error" )
               => Cardinality(Executors(k)) = 1
            /\ \A a \in Callers(k) :
                  pc[a] = "done" =>
                      IF execCalls[a] = 1
                      THEN result[a] = FreshOutcome(a)
                      ELSE \/ IsError(result[a], GmError_IdempotencyConflict)
                           \/ IsError(result[a], GmError_InternalError)
                           \/ \E b \in Executors(k) : result[a] = RecordedOutcome(b)

\* C2 witness: two calls with one key, command and arguments overlapped; one
\* executed and returned, the other returned IdempotencyConflict.
C2_Witness ==
    \E a, b \in Attempts :
        /\ a # b /\ req[a] = req[b] /\ KeyOf(a) \in Keys
        /\ pc[a] = "done" /\ execCalls[a] = 1
        /\ pc[b] = "done" /\ IsError(result[b], GmError_IdempotencyConflict)

\* ------------------------------------------------------------------- C3

\* The string attempt a got back from SetNX is the record of another attempt.
SawRecordOfOther(a) ==
    /\ nxCalls[a] = 1 /\ path[a] # "setnx_error"
    /\ oldRecordStr[a].s = "record"
    /\ oldRecordStr[a].nonce # a

\* The string attempt a got back from SetNX is a done record of another attempt
\* with the command name and the arguments of a's request.
SawMatchingDoneRecord(a) ==
    /\ SawRecordOfOther(a)
    /\ oldRecordStr[a].done
    /\ oldRecordStr[a].cmd = req[a].Cmd
    /\ oldRecordStr[a].args = req[a].Args

\* C3 as stated: a call that finds a done record with its command name and
\* arguments returns exactly the serialized result and error that the executing
\* attempt stored and itself returned, calls the listener not at all and writes
\* nothing to the store.
C3_AsStated ==
    \A a \in Attempts :
        SawMatchingDoneRecord(a) =>
            /\ pc[a] = "done"
            /\ result[a] = [resp |-> RawMessage(oldRecordStr[a].resp),
                            err |-> oldRecordStr[a].error]
            /\ result[a] = result[oldRecordStr[a].nonce]
            /\ execCalls[a] = 0
            /\ xxCalls[a] = 0

\* ------------------------------------------------------------------- C4

\* Attempt a takes the step in which its SetNX returns.
SetNXReturns(a) == nxCalls'[a] = nxCalls[a] + 1

\* The store holds for the key of request r a record that is not done and is
\* not the record of attempt a.
PendingOfOther(a, r) ==
    /\ r.IdempotencyKey \in DOMAIN kv
    /\ kv[r.IdempotencyKey].s = "record"
    /\ ~kv[r.IdempotencyKey].done
    /\ kv[r.IdempotencyKey].nonce # a

\* C4: a call whose SetNX finds the key claimed by another attempt that has not
\* finalized (a record with done = false) returns IdempotencyConflict whatever
\* its command name and arguments are; the step leaves the store as it was and
\* the call never calls the listener nor SetXX.
C4_PendingGivesConflict ==
    /\ [](\A a \in Attempts :
            (SawRecordOfOther(a) /\ ~oldRecordStr[a].done) =>
                /\ pc[a] = "done"
                /\ IsError(result[a], GmError_IdempotencyConflict)
                /\ execCalls[a] = 0
                /\ xxCalls[a] = 0)
    /\ [][\A a \in Attempts :
            (SetNXReturns(a) /\ path'[a] # "setnx_error" /\ PendingOfOther(a, req'[a])) =>
                /\ oldRecordStr'[a] = kv[req'[a].IdempotencyKey]
                /\ kv' = kv /\ expiry' = expiry
                /\ execCalls' = execCalls]_vars

\* C4 witness: a call with another command than the pending record's got
\* IdempotencyConflict while the claimant has not finalized.
C4_Witness ==
    \E a, b \in Attempts :
        /\ a # b /\ pc[b] = "exec"
        /\ SawRecordOfOther(a) /\ oldRecordStr[a].nonce = b /\ ~oldRecordStr[a].done
        /\ req[a].Cmd # req[b].Cmd
        /\ IsError(result[a], GmError_IdempotencyConflict)
        /\ kv[KeyOf(a)] = PendingString(b)

\* ------------------------------------------------------------------- C5

\* The store holds for the key of request r a done record of another attempt
\* whose command name or arguments differ from those of r.
DoneMismatchOfOther(a, r) ==
    /\ r.IdempotencyKey \in DOMAIN kv
    /\ kv[r.IdempotencyKey].s = "record"
    /\ kv[r.IdempotencyKey].done
    /\ kv[r.IdempotencyKey].nonce # a
    /\ (kv[r.IdempotencyKey].cmd # r.Cmd \/ kv[r.IdempotencyKey].args # r.Args)

\* C5: a call whose SetNX finds a done record whose command name or arguments
\* differ from its request's returns IdempotencyMismatch; the step leaves the
\* store as it was and the call never calls the listener nor SetXX.
C5_DoneMismatchGivesMismatch ==
    /\ [](\A a \in Attempts :
            ( /\ SawRecordOfOther(a) /\ oldRecordStr[a].done
              /\ (oldRecordStr[a].cmd # req[a].Cmd \/ oldRecordStr[a].args # req[a].Args) )
            => /\ pc[a] = "done"
               /\ IsError(result[a], GmError_IdempotencyMismatch)
               /\ execCalls[a] = 0
               /\ xxCalls[a] = 0)
    /\ [][\A a \in Attempts :
            (SetNXReturns(a) /\ path'[a] # "setnx_error" /\ DoneMismatchOfOther(a, req'[a])) =>
                /\ oldRecordStr'[a] = kv[req'[a].IdempotencyKey]
                /\ kv' = kv /\ expiry' = expiry
                /\ execCalls' = execCalls]_vars

\* C5 witness: a call with the command of a completed call and other arguments
\* got IdempotencyMismatch, and the done record is still in the store.
C5_Witness ==
    \E a, b \in Attempts :
        /\ a # b /\ pc[b] = "done" /\ execCalls[b] = 1
        /\ SawRecordOfOther(a) /\ oldRecordStr[a].nonce = b /\ oldRecordStr[a].done
        /\ req[a].Cmd = req[b].Cmd /\ req[a].Args # req[b].Args
        /\ IsError(result[a], GmError_IdempotencyMismatch)
        /\ kv[KeyOf(a)] = oldRecordStr[a]

\* ------------------------------------------------------------------- C6

\* C6: a call without an idempotency key calls the listener exactly once and
\* returns what the listener returned, however often the request is repeated,
\* and it calls neither SetNX nor SetXX; its step leaves the store as it was.
C6_NoKeyAlwaysExecutes ==
    /\ [](\A a \in Attempts :
            (pc[a] # "idle" /\ KeyOf(a) = NoKey) =>
                /\ pc[a] \in {"done", "panicked"}
                /\ execCalls[a] = 1
                /\ nxCalls[a] = 0 /\ xxCalls[a] = 0
                /\ pc[a] = "done" =>
                      result[a] = [resp |-> outcome[a].resp, err |-> outcome[a].err])
    /\ [][\A a \in Attempts :
            (pc[a] = "idle" /\ pc'[a] # "idle" /\ req'[a].IdempotencyKey = NoKey) =>
                /\ kv' = kv /\ expiry' = expiry
                /\ oldRecordStr' = oldRecordStr
                /\ execCalls'[a] = 1]_vars

\* C6 witness: the same request without a key was dispatched twice; the
\* listener was called each time and the two calls returned different outcomes.
C6_Witness ==
    \E a, b \in Attempts :
        /\ a # b /\ req[a] = req[b] /\ req[a] \in Requests /\ KeyOf(a) = NoKey
        /\ pc[a] = "done" /\ pc[b] = "done"
        /\ execCalls[a] = 1 /\ execCalls[b] = 1
        /\ result[a] # result[b]
        /\ result[a].resp = Value("v1")

\* ------------------------------------------------------------------- C7

\* C7: a call whose SetNX returned an error returns InternalError, never calls
\* the listener and issues no SetXX.
C7_ClaimErrorFailsClosed ==
    \A a \in Attempts :
        path[a] = "setnx_error" =>
            /\ pc[a] = "done"
            /\ IsError(result[a], GmError_InternalError)
            /\ nxCalls[a] = 1
            /\ execCalls[a] = 0
            /\ xxCalls[a] = 0

\* C7 witness: a SetNX that ran on the server but returned an error: the call
\* returned InternalError and its pending record is in the store.
C7_Witness ==
    \E a \in Attempts :
        /\ path[a] = "setnx_error" /\ pc[a] = "done"
        /\ KeyOf(a) \in DOMAIN kv /\ kv[KeyOf(a)] = PendingString(a)
        /\ IsError(result[a], GmError_InternalError)

\* ------------------------------------------------------------------- C8

\* C8: a call whose SetXX returned an error after the listener ran returns the
\* outcome the listener just gave it, result and error as processRequest
\* serialized them, and not an InternalError of its own.
C8_SaveErrorReturnsOutcome ==
    \A a \in Attempts :
        path[a] \in {"first_unsaved", "first_save_error"} =>
            /\ pc[a] = "done"
            /\ execCalls[a] = 1 /\ xxCalls[a] = 1
            /\ result[a] = FreshOutcome(a)
            /\ result[a].err = outcome[a].err

\* C8 witness: the SetXX of a call failed and did not reach the store; the call
\* returned the listener's result while the record is still pending.
C8_Witness ==
    \E a \in Attempts :
        /\ path[a] = "first_unsaved" /\ pc[a] = "done"
        /\ outcome[a].resp = Value("v1")
        /\ result[a] = [resp |-> RawMessage("{v1}"), err |-> NoError]
        /\ KeyOf(a) \in DOMAIN kv /\ kv[KeyOf(a)] = PendingString(a)

\* ------------------------------------------------------------------- C9

\* The status of key k in store m.
Status(m, k) ==
    IF k \notin DOMAIN m THEN "absent" ELSE IF m[k].done THEN "done" ELSE "pending"

\* The done record attempt a writes: its pending record with the outcome.
DoneString(a) == jsonMarshalRecord(processedRecord(newRecord(a, req[a]), outcome[a]))

\* Part of C9 as stated: in either store a done record stays in the store and
\* is never modified.
C9_AsStated ==
    [][\A k \in Keys :
          Status(kv, k) = "done" => (k \in DOMAIN kv' /\ kv'[k] = kv[k])]_vars

\* C9: in the in-memory store no key ever expires, and in the networked store
\* a record leaves the store only by expiry.  As long as no record of a key has
\* expired, the key's status only moves absent -> pending -> done: a created
\* record is pending, a pending record changes only into the done record of
\* the attempt that created it, written by that attempt after its single call
\* of the listener, and a done record is never modified.
C9_ForwardOnlyUntilExpiry ==
    /\ [](storeKind = "memory" => \A k \in Keys : expired[k] = 0)
    /\ [][\A k \in Keys :
            /\ (k \in DOMAIN kv /\ k \notin DOMAIN kv') =>
                  (storeKind = "redis" /\ now' > now /\ expiry[k] <= now'
                   /\ expired'[k] = expired[k] + 1)
            /\ expired'[k] = 0 =>
                  /\ (Status(kv, k) = "absent" /\ Status(kv', k) # "absent") =>
                        Status(kv', k) = "pending"
                  /\ Status(kv, k) = "pending" =>
                        \/ kv'[k] = kv[k]
                        \/ \E a \in Attempts :
                              /\ kv[k] = PendingString(a)
                              /\ pc[a] = "save" /\ pc'[a] = "done"
                              /\ execCalls[a] = 1 /\ xxCalls'[a] = 1
                              /\ kv'[k] = DoneString(a)
                              /\ Status(kv', k) = "done"
                  /\ Status(kv, k) = "done" => kv'[k] = kv[k]]_vars

\* C9 witness: over the networked store an attempt finalized the record it
\* created, another attempt then dispatched the same key, and the done record
\* is as the first attempt wrote it.
C9_Witness ==
    \E a, b \in Attempts :
        /\ a # b /\ storeKind = "redis" /\ KeyOf(a) \in Keys
        /\ expired[KeyOf(a)] = 0
        /\ pc[a] = "done" /\ xxCalls[a] = 1
        /\ pc[b] = "done" /\ SawRecordOfOther(b) /\ oldRecordStr[b] = DoneString(a)
        /\ kv[KeyOf(a)] = DoneString(a)

\* ------------------------------------------------------------------- C10

\* Attempt a created a record and will never finalize it: the listener
\* panicked, the SetXX failed before it reached the store, or the SetNX ran on
\* the server and its reply was an error.
NeverFinalizes(a) ==
    \/ pc[a] = "panicked" /\ path[a] = "first"
    \/ pc[a] = "done" /\ path[a] \in {"first_unsaved", "setnx_error"}

\* Key k holds the pending record of an attempt that will never finalize it.
Abandoned(k) ==
    /\ k \in DOMAIN kv
    /\ \E a \in Attempts : NeverFinalizes(a) /\ KeyOf(a) = k /\ kv[k] = PendingString(a)

StoreCallReturns(c, op) ==
    call[c].pc # "returned" /\ call'[c].pc = "returned" /\ call'[c].op = op

\* The SetNX calls on key k that returned and ran in the key's life number l.
ReturnedSetNX(k, l) ==
    {c \in StoreCallers : /\ call[c].pc = "returned" /\ call[c].op = "SetNX"
                          /\ call[c].key = k /\ call[c].life = l}

\* No SetXX on key k has returned.
OnlySetNXOn(k) ==
    \A c \in StoreCallers :
        ~(call[c].pc = "returned" /\ call[c].op = "SetXX" /\ call[c].key = k)

\* C11: the step in which a SetNX(key, value) returns acts on the store as it is
\* at that step: with the key absent it stores value and returns "", with the
\* key present it leaves the store as it is and returns the stored value.  Hence
\* among the SetNX calls with non-empty values that returned for a key in one
\* life of the key, with no SetXX on it, exactly one returned "" and every
\* other one returned the value of that one.
C11_SetNXAtomic ==
    /\ [][\A c \in StoreCallers :
            StoreCallReturns(c, "SetNX") =>
                LET k == call'[c].key
                    v == call'[c].value
                IN  IF k \in DOMAIN kv
                    THEN kv' = kv /\ call'[c].ret = kv[k] /\ call'[c].err = NilErr
                    ELSE /\ kv' = (k :> v) @@ kv
                         /\ call'[c].ret = EmptyString /\ call'[c].err = NilErr]_vars
    /\ [](\A k \in Keys, l \in 0..MaxTime :
            (ReturnedSetNX(k, l) # {} /\ OnlySetNXOn(k)) =>
                \E w \in ReturnedSetNX(k, l) :
                    /\ call[w].ret = EmptyString
                    /\ \A c \in ReturnedSetNX(k, l) \ {w} : call[c].ret = StoreValue(w))

\* C11 witness: every caller called SetNX on one key of the in-memory store;
\* the first got "" and the others got the value of the first.
C11_Witness ==
    /\ storeKind = "memory"
    /\ \A c \in StoreCallers :
          call[c].pc = "returned" /\ call[c].op = "SetNX" /\ call[c].key = "k1"
    /\ \E w \in StoreCallers :
          /\ call[w].ret = EmptyString
          /\ kv["k1"] = StoreValue(w)
          /\ \A c \in StoreCallers \ {w} : call[c].ret = StoreValue(w)

\* ------------------------------------------------------------------- C12

\* C12 as stated: in either store the step in which a SetXX(key, value) returns
\* overwrites the value of a key that exists, and for a key that does not exist
\* it leaves the store as it is; in both cases it returns no error.
C12_AsStated ==
    [][\A c \in StoreCallers :
          StoreCallReturns(c, "SetXX") =>
              LET k == call'[c].key
              IN  /\ IF k \in DOMAIN kv
                     THEN kv' = [kv EXCEPT ![k] = call'[c].value]
                     ELSE kv' = kv
                  /\ expiry' = expiry
                  /\ call'[c].err = NilErr]_vars

\* ------------------------------------------------------------------- C13

\* AuthHttp was called on the request as SignHttp left it, by a verifier with
\* the signer's game and key.
VerifiedAsSigned ==
    /\ hphase = "verified" /\ signErr = "nil" /\ changes = {}
    /\ verifierOf = signerOf

\* The start of the second in which the request was signed.
SignedSecondStart == (signedAt \div TicksPerSecond) * TicksPerSecond

\* C13 as stated: a request signed at t verifies at every t2 with
\* |t2 - t| <= 5 minutes, whatever instants t and t2 are.
C13_AsStated ==
    (VerifiedAsSigned /\ AbsDiff(authAt, signedAt) <= maxTimeDiff) => authErr = "nil"

\* C13: a request signed at t verifies at t2, under the signer's game and key,
\* exactly when t2 is at most 5 minutes from the start of the second of t (the
\* timestamp keeps whole seconds only); so it verifies at t2 = t, and whenever
\* |t2 - t| <= 5 minutes for a t that is a whole second.
C13_RoundTripFromSignedSecond ==
    VerifiedAsSigned =>
        /\ authErr = "nil" <=> AbsDiff(authAt, SignedSecondStart) <= maxTimeDiff
        /\ authAt = signedAt => authErr = "nil"
        /\ (signedAt = SignedSecondStart /\ AbsDiff(authAt, signedAt) <= maxTimeDiff)
               => authErr = "nil"

\* C13 witness: a request with a body, signed inside a second and verified at
\* the same instant.
C13_Witness ==
    /\ VerifiedAsSigned
    /\ signedAt # SignedSecondStart /\ authAt = signedAt
    /\ Yields(authReq.Body) = "b1"
    /\ authErr = "nil"

\* ------------------------------------------------------------------- C14

\* Part of C14 as stated: after a signed request had its method, its
\* path and query, its body or the timestamp of its authorization field
\* changed to another value, AuthHttp fails.
C14_AsStated ==
    ( /\ hphase = "verified" /\ signErr = "nil"
      /\ verifierOf = signerOf
      /\ Cardinality(changes) = 1
      /\ changes \subseteq {"method", "uri", "body", "timestamp"} )
    => authErr # "nil"

\* ------------------------------------------------------------------- C15

\* What parseAuthorizationHeader made of the header AuthHttp found.
ParsedAuth == parseAuthorizationHeader(authReq.Authorization)

\* AuthHttp reached its time check: the header parsed and the scheme is right.
ReachedTimeCheck ==
    hphase = "verified" /\ ParsedAuth.err = "nil" /\ ParsedAuth.scheme = signingAlgorithm

\* C15: a call of AuthHttp that reaches the time check fails it, with the time
\* difference error, exactly when current time and parsed timestamp are more
\* than 5 minutes apart, in either direction; a request signed at a whole second
\* verifies 4:59 and 5:00 minutes later and fails the time check 5:01 later.
C15_SkewInclusive ==
    /\ ReachedTimeCheck =>
          (authErr = "time difference exceeds maximum allowed"
              <=> AbsDiff(authAt, ParsedAuth.timestamp) > maxTimeDiff)
    /\ (VerifiedAsSigned /\ signedAt = SignedSecondStart) =>
          /\ AbsDiff(authAt, signedAt) \in
                 {maxTimeDiff - TicksPerSecond, maxTimeDiff} => authErr = "nil"
          /\ AbsDiff(authAt, signedAt) \in {maxTimeDiff + 1, maxTimeDiff + TicksPerSecond}
                 => authErr = "time difference exceeds maximum allowed"

\* C15 witness: a request verified exactly 5 minutes before the whole second at
\* which it was signed.
C15_Witness ==
    /\ VerifiedAsSigned /\ signedAt = SignedSecondStart
    /\ signedAt - authAt = maxTimeDiff
    /\ authErr = "nil"

\* ------------------------------------------------------------------- C16

\* The checks of AuthHttp, each on the request as AuthHttp found it.
FailsParse == ParsedAuth.err # "nil"
FailsScheme == ParsedAuth.scheme # signingAlgorithm
FailsClock == AbsDiff(authAt, ParsedAuth.timestamp) > maxTimeDiff
FailsGame == ParsedAuth.game # verifierOf.game
FailsSignature ==
    ParsedAuth.signature #
        computeSignature(verifierOf.signingKey,
                         buildStringToSign(authReq, getTimestamp(ParsedAuth.timestamp)).str)

\* C16: AuthHttp returns the error of the first failing check in the order
\* header parse, scheme, time difference, game, signature, and nil only when
\* all five pass (a body that cannot be read ends the signature check with the
\* read error).
C16_FirstFailingCheck ==
    hphase = "verified" =>
        /\ FailsParse =>
              authErr \in {"missing authorization header", "invalid authorization header",
                           "invalid parameters in authorization header", "invalid timestamp"}
        /\ (~FailsParse /\ FailsScheme) => authErr = "invalid auth scheme"
        /\ (~FailsParse /\ ~FailsScheme /\ FailsClock) =>
              authErr = "time difference exceeds maximum allowed"
        /\ (~FailsParse /\ ~FailsScheme /\ ~FailsClock /\ FailsGame) =>
              authErr = "invalid game"
        /\ (~FailsParse /\ ~FailsScheme /\ ~FailsClock /\ ~FailsGame /\ authReq.Body.fails) =>
              authErr = "failed to compute payload hash"
        /\ (~FailsParse /\ ~FailsScheme /\ ~FailsClock /\ ~FailsGame /\ ~authReq.Body.fails
              /\ FailsSignature) => authErr = "invalid signature"
        /\ authErr = "nil" =>
              ~FailsParse /\ ~FailsScheme /\ ~FailsClock /\ ~FailsGame /\ ~FailsSignature

\* C16 witness: a request of another game, with a timestamp that is too old and
\* a signature that does not fit, is answered with the time difference error.
C16_Witness ==
    /\ hphase = "verified"
    /\ ~FailsParse /\ ~FailsScheme /\ FailsClock /\ FailsGame /\ FailsSignature
    /\ authErr = "time difference exceeds maximum allowed"

\* ------------------------------------------------------------------- C17

\* C17: a SignHttp or AuthHttp call that returns without a read error leaves a
\* body that yields the bytes it yielded before the call, present or nil as it
\* was; AuthHttp leaves method, URL and Authorization header as they were, and
\* SignHttp changes the Authorization header only.
C17_BodyRestored ==
    [][ /\ (hphase = "unsigned" /\ hphase' = "signed") =>
              /\ Yields(hreq'.Body) = Yields(hreq.Body)
              /\ hreq'.Body.nil = hreq.Body.nil
              /\ hreq'.Method = hreq.Method /\ hreq'.URI = hreq.URI
        /\ (hphase' = "verified" /\ hphase # "verified"
              /\ authErr' # "failed to compute payload hash") =>
              /\ Yields(hreq'.Body) = Yields(hreq.Body)
              /\ hreq'.Body.nil = hreq.Body.nil
              /\ hreq'.Method = hreq.Method /\ hreq'.URI = hreq.URI
              /\ hreq'.Authorization = hreq.Authorization ]_vars

\* C17 witness: a request with a body was signed and verified, both calls read
\* the body, and the body still yields its bytes.
C17_Witness ==
    /\ VerifiedAsSigned /\ authErr = "nil"
    /\ Yields(signedReq.Body) = "b1"
    /\ Yields(hreq.Body) = "b1"

\* ------------------------------------------------------------------- C18

\* The stages of ServeHTTP, each judged on the request as it arrived.
WrongMethod == inbound.Method # "POST"
WrongContentType == ~hasJsonPrefix(inbound.ContentType)
SignatureRejected == AuthHttp(HandlerSigner, inbound, servedAt).err # "nil"
EnvelopeRejected ==
    LET dec == jsonDecode(Yields(inbound.Body))
    IN  dec.err \/ validateRequestBody(dec.body) # NoError

\* ServeHTTP answered with the error code and the status, without calling the
\* listener.
Answered(error, status) ==
    /\ response.kind = "error" /\ response.err.Error = error
    /\ response.code = status
    /\ gmCalls = 0

\* C18: ServeHTTP answers with the error of the first failing stage in the
\* order method, content type, signature, envelope, and calls the listener
\* exactly when no stage fails.
C18_FirstFailingStage ==
    hstate = "responded" =>
        /\ WrongMethod => Answered(GmError_InvalidHttpMethod, StatusMethodNotAllowed)
        /\ (~WrongMethod /\ WrongContentType) =>
              Answered(GmError_InvalidContentType, StatusUnsupportedMediaType)
        /\ (~WrongMethod /\ ~WrongContentType /\ SignatureRejected) =>
              Answered(GmError_InvalidSignature, StatusUnauthorized)
        /\ (~WrongMethod /\ ~WrongContentType /\ ~SignatureRejected /\ EnvelopeRejected) =>
              Answered(GmError_InvalidRequest, StatusBadRequest)
        /\ (~WrongMethod /\ ~WrongContentType /\ ~SignatureRejected /\ ~EnvelopeRejected) =>
              gmCalls = 1

\* C18 witness: a POST with a JSON content type, a signature made with another
\* key and a body that is no JSON is answered invalid_signature, 401.
C18_Witness ==
    /\ hstate = "responded"
    /\ ~WrongMethod /\ ~WrongContentType /\ SignatureRejected
    /\ Yields(inbound.Body) \in MalformedTexts
    /\ inbound.Authorization # NoHeader
    /\ Answered(GmError_InvalidSignature, StatusUnauthorized)

\* ------------------------------------------------------------------- C19

\* C19: after a call of the listener the status is 200, with the marshalled
\* result as body (no body when json.Marshal rejects the result), if the
\* listener returned no error; otherwise the body is the listener's error and
\* the status is a 4xx for every client error, 409 for idempotency_conflict
\* and 422 for idempotency_mismatch, a 5xx for every server error, and 500
\* for a code the map does not hold.
C19_StatusOfOutcome ==
    (hstate = "responded" /\ gmCalls = 1) =>
        IF gmOutcome.err = NoError
        THEN /\ response.code = StatusOK
             /\ response.kind = "result"
             /\ response.text = jsonMarshalAny(gmOutcome.resp)
        ELSE /\ response.kind = "error" /\ response.err = gmOutcome.err
             /\ gmOutcome.err.Error \in ClientErrors => response.code \in 400..499
             /\ gmOutcome.err.Error \in ServerErrors => response.code \in 500..599
             /\ gmOutcome.err.Error \notin ClientErrors \cup ServerErrors =>
                   response.code = 500
             /\ gmOutcome.err.Error = GmError_IdempotencyConflict => response.code = 409
             /\ gmOutcome.err.Error = GmError_IdempotencyMismatch => response.code = 422

\* C19 witness: the listener returned an error whose code is not in the map
\* and the answer has status 500.
C19_Witness ==
    /\ hstate = "responded" /\ gmCalls = 1
    /\ gmOutcome.err.Error = UndeclaredError
    /\ response.code = 500

\* ------------------------------------------------------------------- C20

\* The request passed the method, content type and signature stages.
Authenticated ==
    hstate = "responded" /\ ~WrongMethod /\ ~WrongContentType /\ ~SignatureRejected

\* The body of the request is an envelope.
IsEnvelope == \E d \in JsonDocuments : JsonText(d) = Yields(inbound.Body)

\* The envelope the request carries.
Envelope == CHOOSE d \in JsonDocuments : JsonText(d) = Yields(inbound.Body)

\* The envelope has the member: a non-empty string, or an object.
Carries(member) == (member.kind = "string" /\ member.s # "") \/ member.kind = "object"

\* C20: an authenticated request whose envelope lacks version, request_id,
\* command or args is answered invalid_request with status 400 and the listener
\* is not called; an envelope that carries the four and lacks idempotency_key
\* is passed to the listener with an empty IdempotencyKey.
C20_RequiredFields ==
    (Authenticated /\ IsEnvelope) =>
        /\ ( \/ Envelope.version = JAbsent \/ Envelope.request_id = JAbsent
             \/ Envelope.command = JAbsent \/ Envelope.args = JAbsent )
           => Answered(GmError_InvalidRequest, StatusBadRequest)
        /\ ( /\ Carries(Envelope.version) /\ Carries(Envelope.request_id)
             /\ Carries(Envelope.command) /\ Carries(Envelope.args)
             /\ Envelope.idempotency_key = JAbsent )
           => /\ gmCalls = 1
              /\ gmCall.IdempotencyKey = ""
              /\ gmCall.Version = Envelope.version.s /\ gmCall.Id = Envelope.request_id.s
              /\ gmCall.Cmd = Envelope.command.s /\ gmCall.Args = Envelope.args.text

\* C20 witness: an authenticated request whose envelope lacks args only.
C20_Witness ==
    /\ Authenticated /\ IsEnvelope
    /\ Carries(Envelope.version) /\ Carries(Envelope.request_id) /\ Carries(Envelope.command)
    /\ Envelope.idempotency_key # JAbsent
    /\ Envelope.args = JAbsent
    /\ Answered(GmError_InvalidRequest, StatusBadRequest)

\* Second C20 case reached: an envelope without idempotency_key was dispatched.
C20_DispatchedWithoutKey ==
    /\ Authenticated /\ IsEnvelope
    /\ Envelope.idempotency_key = JAbsent
    /\ gmCalls = 1 /\ gmCall.IdempotencyKey = ""

\* ------------------------------------------------------------------- C21

\* The SetNX of attempt a returned the record a itself had written: the store
\* client had retried a SET that had taken effect.
Echoed(a) ==
    /\ nxCalls[a] = 1
    /\ oldRecordStr[a].s = "record"
    /\ oldRecordStr[a].nonce = a

\* The paths of HandleGmRequest that run processRequest.
FirstTimePaths == {"first", "first_save_error", "first_unsaved"}

\* C21 as stated: an attempt whose SetNX returned its own record takes the
\* first-time path, and the wrapped listener runs once for its key.
C21_AsStated ==
    \A a \in Attempts :
        Echoed(a) =>
            /\ path[a] \in FirstTimePaths
            /\ Cardinality(Executors(KeyOf(a))) <= 1

\* C21: an attempt whose SetNX returned its own record takes the first-time
\* path, calls the wrapped listener once and, when that returns, issues its
\* one SetXX; the listener runs at most once per creation of the key's record,
\* and as long as no record of the key has expired the echoed attempt is the
\* only one that runs it.
C21_EchoIsFirstTime ==
    \A a \in Attempts :
        Echoed(a) =>
            /\ path[a] \in FirstTimePaths
            /\ pc[a] \in {"exec", "save", "done", "panicked"}
            /\ pc[a] \in {"save", "done", "panicked"} => execCalls[a] = 1
            /\ pc[a] = "done" => xxCalls[a] = 1
            /\ Cardinality(Executors(KeyOf(a))) <= created[KeyOf(a)]
            /\ expired[KeyOf(a)] = 0 => Executors(KeyOf(a)) \subseteq {a}

\* C21 witness: an attempt got its own record back, executed and finalized,
\* and another attempt on the key, begun before the first had its answer, has
\* returned without executing.
C21_Witness ==
    \E a, b \in Attempts :
        /\ a # b /\ KeyOf(a) = KeyOf(b)
        /\ Echoed(a) /\ pc[a] = "done" /\ execCalls[a] = 1 /\ xxCalls[a] = 1
        /\ ReturnedWithoutExecuting(b)
        /\ IsError(result[b], GmError_IdempotencyConflict)

\* ------------------------------------------------------------------- C22

\* HandleGmRequest returned to the keyed attempt a.
KeyedReturned(a) == KeyOf(a) # NoKey /\ pc[a] = "done"

\* C22 as stated: a keyed call that has returned made exactly one SetNX call;
\* on the first-time path one call of the wrapped listener and one SetXX, on
\* the replay path neither.
C22_AsStated ==
    \A a \in Attempts :
        KeyedReturned(a) =>
            /\ nxCalls[a] = 1
            /\ path[a] \in FirstTimePaths => execCalls[a] = 1 /\ xxCalls[a] = 1
            /\ path[a] = "replay" => execCalls[a] = 0 /\ xxCalls[a] = 0

\* The counts of C22 in every state.
C22_Counts ==
    \A a \in Attempts :
        KeyOf(a) # NoKey =>
            /\ nxCalls[a] <= 1 /\ execCalls[a] <= 1 /\ xxCalls[a] <= 1
            /\ execCalls[a] = 1 => nxCalls[a] = 1 /\ path[a] \in FirstTimePaths
            /\ xxCalls[a] = 1 => execCalls[a] = 1 /\ record[a].Done
            /\ KeyedReturned(a) =>
                  /\ nxCalls[a] = (IF path[a] = "nonce_error" THEN 0 ELSE 1)
                  /\ path[a] \in FirstTimePaths => execCalls[a] = 1 /\ xxCalls[a] = 1
                  /\ path[a] \notin FirstTimePaths => execCalls[a] = 0 /\ xxCalls[a] = 0

\* C22: a keyed call makes at most one SetNX call, exactly one unless the
\* nonce could not be generated; on the first-time path it calls the wrapped
\* listener once and then, after the listener returned, SetXX once with a
\* record whose done is true; on every other path it calls neither.
C22_NoRetry ==
    /\ []C22_Counts
    /\ [][\A a \in Attempts :
            xxCalls'[a] # xxCalls[a] =>
                /\ xxCalls[a] = 0 /\ xxCalls'[a] = 1
                /\ pc[a] = "save" /\ execCalls[a] = 1
                /\ record[a].Done /\ jsonMarshalRecord(record[a]).done
                /\ execCalls'[a] = 1]_vars

\* C22 witness: one call went the first-time path and one the replay path,
\* and both have returned.
C22_Witness ==
    \E a, b \in Attempts :
        /\ KeyedReturned(a) /\ path[a] = "first"
        /\ nxCalls[a] = 1 /\ execCalls[a] = 1 /\ xxCalls[a] = 1
        /\ KeyedReturned(b) /\ path[b] = "replay"
        /\ nxCalls[b] = 1 /\ execCalls[b] = 0 /\ xxCalls[b] = 0

\* ------------------------------------------------------------------- C23

\* AuthHttp was called on a request that SignHttp signed.
ParsedSigned == hphase = "verified" /\ signErr = "nil"

\* What SignHttp wrote into the header value.
Written ==
    [scheme |-> signingAlgorithm, game |-> signerOf.game, timestamp |-> SignedSecondStart,
     signature |-> computeSignature(signerOf.signingKey,
                       buildStringToSign(signedReq, getTimestamp(signedAt)).str)]

\* Parsing gave back what SignHttp wrote.
Recovered ==
    /\ ParsedAuth.err = "nil"
    /\ ParsedAuth.scheme = Written.scheme
    /\ ParsedAuth.game = Written.game
    /\ ParsedAuth.timestamp = Written.timestamp
    /\ ParsedAuth.signature = Written.signature

\* The errors of a header value that cannot be taken apart.
Malformed ==
    {"invalid authorization header", "invalid parameters in authorization header"}

\* Layouts that keep the header value well-formed, and layouts that break a
\* parameter.
KeptLayouts == {"spaces after commas", "quoted values", "extra parameter"}
BrokenParameter == {"no equals sign", "second equals sign"}

SignHttpReturns == signErr = NotCalled /\ signErr' # NotCalled

\* C24: a SignHttp whose request body cannot be read returns the error of the
\* read, and a SignHttp that returns an error leaves the Authorization header
\* of the request as it was, absent or with the value it had.
C24_FailedSignKeepsHeader ==
    [][SignHttpReturns =>
          /\ hreq.Body = FailingBody <=> signErr' = "failed to compute payload hash"
          /\ signErr' # "nil" =>
                /\ hreq'.Authorization = hreq.Authorization
                /\ hphase' = "sign failed"
          /\ signErr' = "nil" => hreq'.Authorization # hreq.Authorization]_vars

\* C24 witness: SignHttp failed on a request that carried a header value, and
\* the request still carries that value.
C24_Witness ==
    /\ hphase = "sign failed" /\ signErr = "failed to compute payload hash"
    /\ hreq.Body = FailingBody
    /\ hreq.Authorization = ForeignHeader

\* ------------------------------------------------------------------- C25

\* A non-empty string that json.Unmarshal does not take for a record.
Undecodable(str) == str # EmptyString /\ str.s # "record"

\* The call a read what SetNX returned and has not gone further than that.
StoppedAtOldRecord(a) ==
    /\ pc[a] = "done" /\ path[a] = "parse_error"
    /\ result[a] = InternalError("failed to unmarshal old idempotency record")
    /\ execCalls[a] = 0 /\ xxCalls[a] = 0

\* C25: a call whose SetNX returns a value that cannot be decoded as an
\* idempotency record returns InternalError and calls neither the wrapped
\* listener nor SetXX, and the step of that SetNX leaves the value under the
\* key, and its expiry, as they were.
C25_UndecodableRecord ==
    /\ [](\A a \in Attempts :
            /\ (nxCalls[a] > 0 /\ Undecodable(oldRecordStr[a])) => StoppedAtOldRecord(a)
            /\ path[a] = "parse_error" => Undecodable(oldRecordStr[a]))
    /\ [][\A a \in Attempts :
            (nxCalls'[a] # nxCalls[a] /\ Undecodable(oldRecordStr'[a])) =>
                /\ KeyOf(a)' \in DOMAIN kv
                /\ kv[KeyOf(a)'] = oldRecordStr'[a]
                /\ kv' = kv /\ expiry' = expiry]_vars

\* C25 witness: a call found the value of the other client under its key and
\* returned InternalError; the value is still there.
C25_Witness ==
    \E a \in Attempts :
        /\ oldRecordStr[a] = StoreValue(OtherClient)
        /\ StoppedAtOldRecord(a)
        /\ kv[KeyOf(a)] = StoreValue(OtherClient)

\* ------------------------------------------------------------------- C26

\* The step is a SetNX of call a that returned without error.
ClaimReturns(a) == nxCalls'[a] # nxCalls[a] /\ path'[a] # "setnx_error"

\* C26: every value in the store is a non-empty string, a marshalled record;
\* a SetNX returns "" exactly when the key was absent, and then the key holds
\* the record of the call; a call goes on to the wrapped listener only when the
\* key was absent or held the record with its own nonce.
C26_WritesNonEmpty ==
    /\ [](\A k \in DOMAIN kv : kv[k] # EmptyString /\ kv[k].s = "record")
    /\ [][\A a \in Attempts :
            ClaimReturns(a) =>
                LET k == KeyOf(a)'
                IN  /\ oldRecordStr'[a] = EmptyString <=> k \notin DOMAIN kv
                    /\ k \notin DOMAIN kv =>
                          kv'[k] = jsonMarshalRecord(newRecord(a, req'[a]))
                    /\ pc'[a] = "exec" =>
                          \/ k \notin DOMAIN kv
                          \/ kv[k].s = "record" /\ kv[k].nonce = a]_vars

\* C26 witness: the key is present with the record of one call, a second call
\* read that record from SetNX and returned without calling the wrapped
\* listener.
C26_Witness ==
    \E a, b \in Attempts :
        /\ a # b /\ KeyOf(a) = KeyOf(b) /\ KeyOf(a) \in DOMAIN kv
        /\ kv[KeyOf(a)].nonce = a
        /\ oldRecordStr[a] = EmptyString /\ path[a] = "first"
        /\ oldRecordStr[b] # EmptyString /\ oldRecordStr[b].nonce = a
        /\ pc[b] = "done" /\ execCalls[b] = 0

\* ------------------------------------------------------------------- C27

\* C27: in the in-memory store nothing expires and nothing is removed: a key
\* that is present stays present, no step but the return of a SetXX on the
\* key changes its value, and that step gives it the value of the call; the
\* return of a SetNX on a present key leaves the store as it is.
C27_MemoryKeepsKeys ==
    /\ [](storeKind = "memory" => expiry = NoExpiry /\ now = 0)
    /\ [][storeKind = "memory" =>
            /\ DOMAIN kv \subseteq DOMAIN kv'
            /\ \A k \in DOMAIN kv :
                  kv'[k] # kv[k] =>
                      \E c \in StoreCallers :
                          /\ StoreCallReturns(c, "SetXX")
                          /\ call'[c].key = k /\ kv'[k] = call'[c].value
            /\ \A c \in StoreCallers :
                  (StoreCallReturns(c, "SetNX") /\ call'[c].key \in DOMAIN kv) =>
                      kv' = kv /\ call'[c].ret = kv[call'[c].key]]_vars

\* C27 witness: in the in-memory store a key was created by one caller,
\* another caller's SetNX on it returned the value and left it, and a third
\* caller's SetXX changed it.
C27_Witness ==
    /\ storeKind = "memory"
    /\ \E c1, c2, c3 \in StoreCallers :
          /\ call[c1].pc = "returned" /\ call[c1].op = "SetNX" /\ call[c1].key = "k1"
          /\ call[c1].ret = EmptyString
          /\ call[c2].pc = "returned" /\ call[c2].op = "SetNX" /\ call[c2].key = "k1"
          /\ call[c2].ret = StoreValue(c1)
          /\ call[c3].pc = "returned" /\ call[c3].op = "SetXX" /\ call[c3].key = "k1"
          /\ kv["k1"] = StoreValue(c3)

\* ------------------------------------------------------------------- C28

\* C28: the Redis store keeps the configured TTL, 24 hours when the configured
\* one is not positive.  A key gets its expiry, the time of the call plus that
\* TTL, in the step of the SetNX that creates it; no later step changes the
\* expiry: a SetXX replaces the value and keeps the expiry, a SetNX on a key
\* that exists changes neither, and the key goes only when the clock reaches
\* its expiry.
C28_ExpiryFixedAtCreation ==
    /\ [](\A c \in StoreTTLConfigs :
            NewRedisTTL(c) = IF c > 0 THEN c ELSE DefaultTTLHours)
    /\ [](storeKind = "redis" =>
            /\ ttl \in {NewRedisTTL(c) : c \in StoreTTLConfigs}
            /\ DOMAIN expiry = DOMAIN kv
            /\ \A k \in DOMAIN kv : expiry[k] > now /\ expiry[k] <= now + ttl)
    /\ [][storeKind = "redis" =>
            /\ \A k \in DOMAIN kv' \ DOMAIN kv :
                  /\ expiry'[k] = now + ttl
                  /\ \E c \in StoreCallers :
                        StoreCallReturns(c, "SetNX") /\ call'[c].key = k
            /\ \A k \in DOMAIN kv \cap DOMAIN kv' : expiry'[k] = expiry[k]
            /\ \A k \in DOMAIN kv \ DOMAIN kv' : expiry[k] <= now'
            /\ \A c \in StoreCallers :
                  /\ (StoreCallReturns(c, "SetNX") /\ call'[c].key \in DOMAIN kv) =>
                        kv' = kv /\ expiry' = expiry
                  /\ (StoreCallReturns(c, "SetXX") /\ call'[c].key \in DOMAIN kv) =>
                        /\ kv' = [kv EXCEPT ![call'[c].key] = call'[c].value]
                        /\ expiry' = expiry]_vars

\* C28 witness: in a Redis store with a TTL longer than the default a key
\* created before the clock moved was overwritten by a SetXX and read by a
\* SetNX after it, and still expires when it did at its creation.
C28_Witness ==
    /\ storeKind = "redis" /\ ttl = 2 * DefaultTTLHours /\ now > 0
    /\ \E c1, c2, c3 \in StoreCallers :
          /\ call[c1].pc = "returned" /\ call[c1].op = "SetNX" /\ call[c1].key = "k1"
          /\ call[c1].ret = EmptyString
          /\ call[c2].pc = "returned" /\ call[c2].op = "SetNX" /\ call[c2].key = "k1"
          /\ call[c2].ret = StoreValue(c3)
          /\ call[c3].pc = "returned" /\ call[c3].op = "SetXX" /\ call[c3].key = "k1"
          /\ call[c3].err = NilErr
          /\ kv["k1"] = StoreValue(c3)
          /\ expiry["k1"] = ttl

\* ------------------------------------------------------------------- C29

\* What the store holds for key k: nothing, or the value and its expiry.
StoredUnder(k) ==
    IF k \in DOMAIN kv
    THEN [present |-> TRUE, value |-> kv[k],
          expiry |-> IF k \in DOMAIN expiry THEN expiry[k] ELSE 0]
    ELSE [present |-> FALSE, value |-> EmptyString, expiry |-> 0]

\* The step is a step of call a.
StepOf(a) ==
    \/ pc'[a] # pc[a]
    \/ nxCalls'[a] # nxCalls[a]
    \/ xxCalls'[a] # xxCalls[a]
    \/ execCalls'[a] # execCalls[a]

\* C29: what the store holds for a key changes only when the clock moves or in
\* a step of a call with that key, so a step of a call leaves every other key
\* as it is; and a call that is the only one with its key never sees
\* a record of another call: it goes the first-time path (or fails at its own
\* nonce or its own SetNX), whatever the calls with other keys do and however
\* they interleave with it, and on the first-time path it returns what the
\* wrapped listener gave it.
C29_KeysIndependent ==
    /\ [](\A a \in Attempts :
            (pc[a] = "done" /\ KeyOf(a) # NoKey /\ Callers(KeyOf(a)) = {a}) =>
                /\ path[a] \in FirstTimePaths \cup {"nonce_error", "setnx_error"}
                /\ path[a] \in FirstTimePaths =>
                      /\ execCalls[a] = 1
                      /\ result[a] = FreshOutcome(a)
                /\ path[a] \notin FirstTimePaths => execCalls[a] = 0)
    /\ [][\A k \in Keys :
            StoredUnder(k)' # StoredUnder(k) =>
                \/ now' # now
                \/ /\ \E a \in Attempts : StepOf(a)
                   /\ \A a \in Attempts : StepOf(a) => KeyOf(a)' = k]_vars

\* C29 witness: two calls with different keys have both gone the first-time
\* path and returned, and the store holds the done record of each under its
\* key.
C29_Witness ==
    \E a, b \in Attempts :
        /\ KeyOf(a) = "k1" /\ KeyOf(b) = "k2"
        /\ pc[a] = "done" /\ pc[b] = "done"
        /\ path[a] = "first" /\ path[b] = "first"
        /\ "k1" \in DOMAIN kv /\ kv["k1"].nonce = a /\ kv["k1"].done
        /\ "k2" \in DOMAIN kv /\ kv["k2"].nonce = b /\ kv["k2"].done

\* ------------------------------------------------------------------- C30

\* The notification in the request as it arrived.
InboundNotification == notificationDecode(Yields(inbound.Body))

\* The later stages of notificationHandler.ServeHTTP, each judged on the
\* request as it arrived.
NotificationRejected == InboundNotification.err
UnknownType == listenerMethod(InboundNotification.body.Type) = "none"
PayloadRejected == payloadUnmarshal(InboundNotification.body.Data).err

\* ServeHTTP answered with the status without calling the listener.
Refused(status) == response.code = status /\ notified = <<>>

\* C30: notificationHandler.ServeHTTP calls the listener at most once for a
\* request, and only when the method is POST, the content type begins with
\* application/json, the signature verifies, the body decodes, the type is
\* ship_order or refund and the payload decodes, tested in this order; it
\* calls HandleShipOrder for ship_order and HandleRefund for refund, with the
\* notification id and the decoded payload.  It answers 405, 415, 401 and 400
\* for the first stage that fails (400 also for an unknown type) without a
\* call, 500 when the called method returned an error, and 200 exactly when a
\* method was called and returned nil.
C30_NotifiesAtMostOnce ==
    /\ Len(notified) <= 1
    /\ hstate # "responded" => notified = <<>>
    /\ hstate = "responded" =>
        /\ WrongMethod => Refused(StatusMethodNotAllowed)
        /\ (~WrongMethod /\ WrongContentType) => Refused(StatusUnsupportedMediaType)
        /\ (~WrongMethod /\ ~WrongContentType /\ SignatureRejected) =>
              Refused(StatusUnauthorized)
        /\ (~WrongMethod /\ ~WrongContentType /\ ~SignatureRejected /\
            (NotificationRejected \/ UnknownType \/ PayloadRejected)) =>
              Refused(StatusBadRequest)
        /\ (~WrongMethod /\ ~WrongContentType /\ ~SignatureRejected /\
            ~NotificationRejected /\ ~UnknownType /\ ~PayloadRejected) =>
              /\ Len(notified) = 1
              /\ notified[1].method = listenerMethod(InboundNotification.body.Type)
              /\ InboundNotification.body.Type = notificationType_ShipOrder =>
                    notified[1].method = "HandleShipOrder"
              /\ InboundNotification.body.Type = notificationType_Refund =>
                    notified[1].method = "HandleRefund"
              /\ notified[1].id = InboundNotification.body.Id
              /\ notified[1].payload = payloadUnmarshal(InboundNotification.body.Data).payload
        /\ response.code = StatusOK <=> (Len(notified) = 1 /\ notified[1].err = "nil")
        /\ response.code = StatusInternalServerError <=>
              (Len(notified) = 1 /\ notified[1].err # "nil")

\* C30 witness: a signed ship_order notification with a payload was handed to
\* HandleShipOrder, which returned an error, and the answer is 500.
C30_Witness ==
    /\ hstate = "responded"
    /\ InboundNotification.body.Type = notificationType_ShipOrder
    /\ Len(notified) = 1
    /\ notified[1].method = "HandleShipOrder"
    /\ notified[1].id = "n1" /\ notified[1].payload.OrderId = "o1"
    /\ notified[1].err # "nil"
    /\ response.code = StatusInternalServerError

====
